---- MODULE Spec2Model ----
(***************************************************************************)
(* Rate-of-spread engine of cffdrs_ts: buildupEffect, the crown fire       *)
(* coupling (criticalSurfaceIntensity, surfaceFireRateOfSpread,            *)
(* crownFractionBurned), the C6 helpers and rateOfSpreadExtended.          *)
(*                                                                         *)
(* JavaScript numbers are modelled as decimal floating point values with   *)
(* six significant digits (rounded toward zero) plus NaN and the two       *)
(* infinities: [k |-> "fin", m |-> mantissa, e |-> exponent] stands for    *)
(* m * 10^e with 100000 <= |m| <= 999999, or m = 0 and e = 0.              *)
(***************************************************************************)
EXTENDS Integers, Sequences, FiniteSets, TLC

\* ------------------------------------------------------------------------
\* Number representation
\* ------------------------------------------------------------------------
NaN == [k |-> "nan", m |-> 0, e |-> 0]
PInf == [k |-> "inf", m |-> 1, e |-> 0]
NInf == [k |-> "inf", m |-> -1, e |-> 0]
Zero == [k |-> "fin", m |-> 0, e |-> 0]

IsNaN(x) == x.k = "nan"
IsInf(x) == x.k = "inf"
IsFin(x) == x.k = "fin"

AbsI(n) == IF n < 0 THEN -n ELSE n
SgnI(n) == IF n < 0 THEN -1 ELSE IF n > 0 THEN 1 ELSE 0

\* 10^n for n in 0..9
Pow10(n) ==
  <<1, 10, 100, 1000, 10000, 100000, 1000000, 10000000, 100000000, 1000000000>>[n + 1]

\* the number of decimal digits of m > 0
Digits(m) ==
  IF m < 100000
  THEN (IF m < 100 THEN (IF m < 10 THEN 1 ELSE 2)
        ELSE IF m < 1000 THEN 3 ELSE IF m < 10000 THEN 4 ELSE 5)
  ELSE IF m < 1000000 THEN 6
  ELSE IF m < 100000000 THEN (IF m < 10000000 THEN 7 ELSE 8)
  ELSE IF m < 1000000000 THEN 9 ELSE 10

\* m * 10^e with the mantissa moved by s digits (cut toward zero for s > 0)
Scale(m, e, s) ==
  IF s = 0 THEN [k |-> "fin", m |-> m, e |-> e]
  ELSE IF s > 0 THEN [k |-> "fin", m |-> SgnI(m) * (AbsI(m) \div Pow10(s)), e |-> e + s]
  ELSE [k |-> "fin", m |-> m * Pow10(-s), e |-> e + s]

\* the double nearest (toward zero) to m * 10^e
Norm(m, e) == IF m = 0 THEN Zero ELSE Scale(m, e, Digits(AbsI(m)) - 6)

\* the literal m * 10^e
F(m, e) == Norm(m, e)
\* the literal integer n
N(n) == Norm(n, 0)

Sgn(x) == SgnI(x.m)
Neg(x) == IF IsNaN(x) THEN NaN ELSE [x EXCEPT !.m = -x.m]
Abs(x) == IF IsNaN(x) THEN NaN ELSE [x EXCEPT !.m = AbsI(x.m)]

\* ------------------------------------------------------------------------
\* Arithmetic (IEEE special cases included)
\* ------------------------------------------------------------------------
\* hi + lo where hi.e - lo.e = d >= 0: hi gets up more digits, lo is cut to them
AddAligned(hi, lo, d, up) ==
  IF d >= 9 THEN hi
  ELSE Norm(hi.m * Pow10(up) + SgnI(lo.m) * (AbsI(lo.m) \div Pow10(d - up)), hi.e - up)

AddOrdered(hi, lo, d) == AddAligned(hi, lo, d, IF d < 3 THEN d ELSE 3)

AddFin(x, y) ==
  IF x.m = 0 THEN y
  ELSE IF y.m = 0 THEN x
  ELSE AddOrdered(IF x.e >= y.e THEN x ELSE y, IF x.e >= y.e THEN y ELSE x,
                  AbsI(x.e - y.e))

Add(x, y) ==
  IF IsNaN(x) \/ IsNaN(y) THEN NaN
  ELSE IF IsInf(x) /\ IsInf(y) THEN (IF x.m = y.m THEN x ELSE NaN)
  ELSE IF IsInf(x) THEN x
  ELSE IF IsInf(y) THEN y
  ELSE AddFin(x, y)

Sub(x, y) == Add(x, Neg(y))

MulFin(x, y) ==
  LET xm == AbsI(x.m)
      ym == AbsI(y.m)
      xh == xm \div 1000
      xl == xm % 1000
      yh == ym \div 1000
      yl == ym % 1000
      \* floor(xm * ym / 10^5), computed without leaving 32 bits
      q  == xh * yh * 10 + (((xh * yl + xl * yh) * 10 + ((xl * yl) \div 100)) \div 1000)
  IN  Norm(SgnI(x.m) * SgnI(y.m) * q, x.e + y.e + 5)

Mul(x, y) ==
  IF IsNaN(x) \/ IsNaN(y) THEN NaN
  ELSE IF IsInf(x) \/ IsInf(y)
       THEN (IF x.m = 0 \/ y.m = 0 THEN NaN
             ELSE IF SgnI(x.m) * SgnI(y.m) > 0 THEN PInf ELSE NInf)
  ELSE MulFin(x, y)

DivFin(x, y) ==
  IF x.m = 0 THEN Zero
  ELSE LET xm == AbsI(x.m)
           ym == AbsI(y.m)
           \* floor(xm * 10^6 / ym), three digits at a time
           q  == ((xm * 1000) \div ym) * 1000 + ((((xm * 1000) % ym) * 1000) \div ym)
       IN  Norm(SgnI(x.m) * SgnI(y.m) * q, x.e - y.e - 6)

Div(x, y) ==
  IF IsNaN(x) \/ IsNaN(y) THEN NaN
  ELSE IF IsInf(x) THEN (IF IsInf(y) THEN NaN
                         ELSE IF x.m * (IF y.m < 0 THEN -1 ELSE 1) > 0 THEN PInf ELSE NInf)
  ELSE IF IsInf(y) THEN Zero
  ELSE IF y.m = 0 THEN (IF x.m = 0 THEN NaN ELSE IF x.m > 0 THEN PInf ELSE NInf)
  ELSE DivFin(x, y)

\* ------------------------------------------------------------------------
\* Comparisons: every comparison with NaN is false
\* ------------------------------------------------------------------------
Gt(x, y) ==
  IF IsNaN(x) \/ IsNaN(y) THEN FALSE
  ELSE IF IsInf(x) THEN x.m > 0 /\ x # y
  ELSE IF IsInf(y) THEN y.m < 0
  ELSE Sgn(AddFin(x, Neg(y))) > 0

Lt(x, y) == Gt(y, x)
Eq(x, y) == ~IsNaN(x) /\ ~IsNaN(y) /\ x = y
Ge(x, y) == Gt(x, y) \/ Eq(x, y)
Le(x, y) == Ge(y, x)

\* ------------------------------------------------------------------------
\* Math.exp, Math.log, Math.pow
\* ------------------------------------------------------------------------
\* floor of a finite x with |x| < 10^9
FloorInt(x) ==
  IF x.e >= 0 THEN x.m * Pow10(x.e)
  ELSE IF x.e < -9 THEN (IF x.m < 0 THEN -1 ELSE 0)
  ELSE x.m \div Pow10(-x.e)

\* n * ln(10) for an integer n
TimesLn10(n) == Add(Norm(n * 230258, -5), Norm(n * 509299, -11))

RECURSIVE ExpSeries(_, _, _, _)
\* sum of r^j / j! for j >= n - 1, given term = r^(n-1) / (n-1)!
ExpSeries(r, term, n, acc) ==
  IF term.m = 0 \/ n > 40 \/ term.e < acc.e - 8 THEN acc
  ELSE ExpSeries(r, DivFin(MulFin(term, r), N(n)), n + 1, AddFin(acc, term))

\* s * 10^n
TimesPow10(s, n) == [s EXCEPT !.e = s.e + n]

\* exp(x) = exp(x - n * ln(10)) * 10^n
ExpReduced(x, n) == TimesPow10(ExpSeries(Sub(x, TimesLn10(n)), N(1), 1, Zero), n)

Exp(x) ==
  IF IsNaN(x) THEN NaN
  ELSE IF IsInf(x) THEN (IF x.m > 0 THEN PInf ELSE Zero)
  ELSE IF Gt(x, N(709)) THEN PInf
  ELSE IF Lt(x, N(-745)) THEN Zero
  ELSE ExpReduced(x, FloorInt(AddFin(DivFin(x, F(230258, -5)), F(5, -1))))

RECURSIVE LnSeries(_, _, _, _)
\* sum of z^j / j over the odd j >= n, given zp = z^n and z2 = z^2
LnSeries(z2, zp, n, acc) ==
  IF zp.m = 0 \/ n > 60 \/ (acc.m # 0 /\ zp.e < acc.e - 8) THEN acc
  ELSE LnSeries(z2, MulFin(zp, z2), n + 2, AddFin(acc, DivFin(zp, N(n))))

\* 2 * atanh(z)
TwoAtanh(z) == MulFin(N(2), LnSeries(MulFin(z, z), z, 1, Zero))

\* ln(y) for y near 1, as 2 * atanh((y - 1) / (y + 1))
LnNearOne(y) == TwoAtanh(DivFin(AddFin(y, N(-1)), AddFin(y, N(1))))

\* ln(x) = ln(x.m * 10^(-s)) + (x.e + s) * ln(10)
LnScaled(x, s) ==
  Add(LnNearOne([k |-> "fin", m |-> x.m, e |-> -s]), TimesLn10(x.e + s))

Ln(x) ==
  IF IsNaN(x) THEN NaN
  ELSE IF IsInf(x) THEN (IF x.m > 0 THEN PInf ELSE NaN)
  ELSE IF x.m < 0 THEN NaN
  ELSE IF x.m = 0 THEN NInf
  ELSE LnScaled(x, IF x.m >= 316228 THEN 6 ELSE 5)

IsInteger(c) == c.e >= 0 \/ (c.e > -6 /\ c.m % Pow10(-c.e) = 0)
IsOdd(c) == IsInteger(c) /\ c.e <= 0 /\ (c.m \div Pow10(-c.e)) % 2 = 1

\* x^c for finite x # 0, given p = |x|^c
PowSigned(x, c, p) ==
  IF x.m > 0 THEN p
  ELSE IF ~IsInteger(c) THEN NaN
  ELSE IF IsOdd(c) THEN Neg(p)
  ELSE p

Pow(x, c) ==
  IF IsFin(c) /\ c.m = 0 THEN N(1)
  ELSE IF IsNaN(x) \/ IsNaN(c) THEN NaN
  ELSE IF IsInf(c) THEN NaN
  ELSE IF IsInf(x) THEN (IF c.m > 0 THEN (IF x.m < 0 /\ ~IsOdd(c) THEN PInf ELSE x) ELSE Zero)
  ELSE IF x.m = 0 THEN (IF c.m > 0 THEN Zero ELSE PInf)
  ELSE PowSigned(x, c, Exp(Mul(c, Ln(Abs(x)))))

\* ------------------------------------------------------------------------
\* Math.PI, Math.sin, Math.cos, Math.sqrt, Math.acos
\* ------------------------------------------------------------------------
PI == F(314159, -5)

\* pi / 2
HalfPi == F(157079, -5)

\* x - k * (pi / 2) for an integer k, pi / 2 taken as 1.57079 + 0.00000632679
MinusHalfPis(x, k) == Sub(Sub(x, Norm(k * 157079, -5)), Norm(k * 632679, -11))

RECURSIVE TrigSeries(_, _, _, _)
\* sum of the terms of the sine series (term = r, n = 2) or of the cosine
\* series (term = 1, n = 1) of r, given r2 = r^2
TrigSeries(r2, term, n, acc) ==
  IF term.m = 0 \/ n > 30 \/ (acc.m # 0 /\ term.e < acc.e - 8) THEN acc
  ELSE TrigSeries(r2, Neg(DivFin(MulFin(term, r2), N(n * (n + 1)))), n + 2,
                  AddFin(acc, term))

\* sin(r + q * pi / 2) for |r| <= pi / 4 and q in 0..3
TrigQuadrant(r, q) ==
  IF q < 2
  THEN TrigSeries(MulFin(r, r), IF q = 0 THEN r ELSE N(1), 2 - q, Zero)
  ELSE Neg(TrigSeries(MulFin(r, r), IF q = 2 THEN r ELSE N(1), 4 - q, Zero))

\* sin(x + shift * pi / 2), x = r + k * pi / 2
TrigReduced(x, k, shift) == TrigQuadrant(MinusHalfPis(x, k), (k + shift) % 4)

Trig(x, shift) ==
  IF ~IsFin(x) THEN NaN
  ELSE TrigReduced(x, FloorInt(AddFin(DivFin(x, HalfPi), F(5, -1))), shift)

Sin(x) == Trig(x, 0)
Cos(x) == Trig(x, 1)

\* the neighbours of a double r > 0
Succ(r) == Norm(r.m + 1, r.e)
Pred(r) == IF r.m = 100000 THEN [r EXCEPT !.m = 999999, !.e = r.e - 1]
           ELSE [r EXCEPT !.m = r.m - 1]

RECURSIVE Newton(_, _, _)
\* n steps of r <- (r + x / r) / 2
Newton(x, r, n) ==
  IF n = 0 \/ r.m = 0 THEN r
  ELSE Newton(x, MulFin(F(5, -1), AddFin(r, DivFin(x, r))), n - 1)

RECURSIVE SqrtDown(_, _)
SqrtDown(x, r) == IF Gt(MulFin(r, r), x) THEN SqrtDown(x, Pred(r)) ELSE r

RECURSIVE SqrtUp(_, _)
SqrtUp(x, r) == IF Gt(MulFin(Succ(r), Succ(r)), x) THEN r ELSE SqrtUp(x, Succ(r))

\* Math.sqrt is correctly rounded, so that Math.sqrt(y * y) is |y|: the
\* greatest double whose square, as Mul computes it, is not above x
Sqrt(x) ==
  IF IsNaN(x) THEN NaN
  ELSE IF IsInf(x) THEN (IF x.m > 0 THEN PInf ELSE NaN)
  ELSE IF x.m < 0 THEN NaN
  ELSE IF x.m = 0 THEN Zero
  ELSE SqrtUp(x, SqrtDown(x, Newton(x, [k |-> "fin", m |-> 100000, e |-> (x.e - 4) \div 2], 8)))

\* atan(z) for |z| <= tan(pi / 8)
AtanSeries(z) == LnSeries(Neg(MulFin(z, z)), z, 1, Zero)

\* atan(z) from s = atan((1 - z) / (1 + z)) when folded, s = atan(z) otherwise
AtanFolded(folded, s) == IF folded THEN AddFin(F(785398, -6), Neg(s)) ELSE s

\* atan(z) for 0 <= z <= 1
AtanUnit(z) ==
  AtanFolded(Gt(z, F(414213, -6)),
             AtanSeries(IF Gt(z, F(414213, -6))
                        THEN DivFin(AddFin(N(1), Neg(z)), AddFin(N(1), z)) ELSE z))

\* atan(z) from s = atan(1 / z) when inverted, s = atan(z) otherwise
AtanInverted(inverted, s) == IF inverted THEN AddFin(HalfPi, Neg(s)) ELSE s

\* atan(z) for a finite z >= 0
Atan(z) == AtanInverted(Gt(z, N(1)), AtanUnit(IF Gt(z, N(1)) THEN DivFin(N(1), z) ELSE z))

Acos(y) ==
  IF ~IsFin(y) \/ Gt(Abs(y), N(1)) THEN NaN
  ELSE IF y = N(-1) THEN PI
  ELSE MulFin(N(2), Atan(Sqrt(DivFin(AddFin(N(1), Neg(y)), AddFin(N(1), y)))))

\* ------------------------------------------------------------------------
\* Fuel parameter tables
\* ------------------------------------------------------------------------
\* the 17 fuel types, in the order of the list d
d == <<"C1", "C2", "C3", "C4", "C5", "C6", "C7", "D1", "M1", "M2", "M3", "M4",
       "S1", "S2", "S3", "O1A", "O1B">>

FuelTypes == {d[i] : i \in 1..Len(d)}

\* spread-rate shape parameters of rateOfSpreadExtended
a == [C1 |-> N(90), C2 |-> N(110), C3 |-> N(110), C4 |-> N(110), C5 |-> N(30),
      C6 |-> N(30), C7 |-> N(45), D1 |-> N(30), M1 |-> Zero, M2 |-> Zero,
      M3 |-> N(120), M4 |-> N(100), S1 |-> N(75), S2 |-> N(40), S3 |-> N(55),
      O1A |-> N(190), O1B |-> N(250)]

b == [C1 |-> F(649, -4), C2 |-> F(282, -4), C3 |-> F(444, -4), C4 |-> F(293, -4),
      C5 |-> F(697, -4), C6 |-> F(800, -4), C7 |-> F(305, -4), D1 |-> F(232, -4),
      M1 |-> Zero, M2 |-> Zero, M3 |-> F(572, -4), M4 |-> F(404, -4),
      S1 |-> F(297, -4), S2 |-> F(438, -4), S3 |-> F(829, -4), O1A |-> F(310, -4),
      O1B |-> F(350, -4)]

c0 == [C1 |-> F(45, -1), C2 |-> F(15, -1), C3 |-> N(3), C4 |-> F(15, -1), C5 |-> N(4),
       C6 |-> N(3), C7 |-> N(2), D1 |-> F(16, -1), M1 |-> Zero, M2 |-> Zero,
       M3 |-> F(14, -1), M4 |-> F(148, -2), S1 |-> F(13, -1), S2 |-> F(17, -1),
       S3 |-> F(32, -1), O1A |-> F(14, -1), O1B |-> F(17, -1)]

\* the average BUI of each fuel type (buildupEffect)
BUIo == [C1 |-> N(72), C2 |-> N(64), C3 |-> N(62), C4 |-> N(66), C5 |-> N(56),
         C6 |-> N(62), C7 |-> N(106), D1 |-> N(32), M1 |-> N(50), M2 |-> N(50),
         M3 |-> N(50), M4 |-> N(50), S1 |-> N(38), S2 |-> N(63), S3 |-> N(31),
         O1A |-> N(1), O1B |-> N(1)]

\* proportion of the maximum spread rate reached at a standard BUI (buildupEffect)
Q == [C1 |-> F(9, -1), C2 |-> F(7, -1), C3 |-> F(75, -2), C4 |-> F(8, -1),
      C5 |-> F(8, -1), C6 |-> F(8, -1), C7 |-> F(85, -2), D1 |-> F(9, -1),
      M1 |-> F(8, -1), M2 |-> F(8, -1), M3 |-> F(8, -1), M4 |-> F(8, -1),
      S1 |-> F(75, -2), S2 |-> F(75, -2), S3 |-> F(75, -2), O1A |-> N(1), O1B |-> N(1)]

\* table[key] of a JavaScript object: undefined (NaN in arithmetic and in
\* comparisons) for a key that is not in the table
Lookup(table, key) == IF key \in DOMAIN table THEN table[key] ELSE NaN

\* ------------------------------------------------------------------------
\* Buildup effect
\* ------------------------------------------------------------------------
\* the buildup effect with BUI >= 0 in place of BUI > 0
buildupEffectFromZero(FUELTYPE, BUI) ==
  IF Ge(BUI, Zero) /\ Gt(Lookup(BUIo, FUELTYPE), Zero)
  THEN Exp(Mul(Mul(N(50), Ln(Lookup(Q, FUELTYPE))),
               Sub(Div(N(1), BUI), Div(N(1), Lookup(BUIo, FUELTYPE)))))
  ELSE N(1)

buildupEffect(FUELTYPE, BUI) ==
  IF Gt(BUI, Zero) /\ Gt(Lookup(BUIo, FUELTYPE), Zero)
  THEN Exp(Mul(Mul(N(50), Ln(Lookup(Q, FUELTYPE))),
               Sub(Div(N(1), BUI), Div(N(1), Lookup(BUIo, FUELTYPE)))))
  ELSE N(1)

\* ------------------------------------------------------------------------
\* Crown fire coupling
\* ------------------------------------------------------------------------
criticalSurfaceIntensity(FMC, CBH) ==
  Mul(Mul(F(1, -3), Pow(CBH, F(15, -1))),
      Pow(Add(N(460), Mul(F(259, -1), FMC)), F(15, -1)))

surfaceFireRateOfSpread(CSI, SFC) == Div(CSI, Mul(N(300), SFC))

\* the crown fraction with 0.23 in place of -0.23
crownFractionBurnedGrowing(ROS, RSO) ==
  IF Gt(ROS, RSO) THEN Sub(N(1), Exp(Mul(F(23, -2), Sub(ROS, RSO)))) ELSE Zero

\* the crown fraction with !(ROS <= RSO) in place of ROS > RSO
crownFractionBurnedUnlessBelow(ROS, RSO) ==
  IF ~Le(ROS, RSO) THEN Sub(N(1), Exp(Mul(F(-23, -2), Sub(ROS, RSO)))) ELSE Zero

crownFractionBurned(ROS, RSO) ==
  IF Gt(ROS, RSO) THEN Sub(N(1), Exp(Mul(F(-23, -2), Sub(ROS, RSO)))) ELSE Zero

\* ------------------------------------------------------------------------
\* C6 conifer plantation
\* ------------------------------------------------------------------------
intermediateSurfaceRateOfSpreadC6(ISI) ==
  Mul(N(30), Pow(Sub(N(1), Exp(Mul(F(-8, -2), ISI))), N(3)))

surfaceRateOfSpreadC6(RSI, BUI) == Mul(RSI, buildupEffect("C6", BUI))

crownRateOfSpreadC6(ISI, FMC) ==
  LET FMEavg == F(778, -3)
      FME == Mul(Div(Pow(Sub(F(15, -1), Mul(F(275, -5), FMC)), N(4)),
                     Add(N(460), Mul(F(259, -1), FMC))),
                 N(1000))
  IN  Div(Mul(Mul(N(60), Sub(N(1), Exp(Mul(F(-497, -4), ISI)))), FME), FMEavg)

\* the C6 crown fraction without the test RSC > RSS
crownFractionBurnedC6NoRSC(RSC, RSS, RSO) ==
  IF Gt(RSS, RSO) THEN crownFractionBurned(RSS, RSO) ELSE Zero

crownFractionBurnedC6(RSC, RSS, RSO) ==
  IF Gt(RSC, RSS) /\ Gt(RSS, RSO) THEN crownFractionBurned(RSS, RSO) ELSE Zero

\* the C6 rate of spread with RSC in place of RSC - RSS
rateOfSpreadC6NoDifference(RSC, RSS, CFB) ==
  IF Gt(RSC, RSS) THEN Add(RSS, Mul(CFB, RSC)) ELSE RSS

rateOfSpreadC6(RSC, RSS, CFB) ==
  IF Gt(RSC, RSS) THEN Add(RSS, Mul(CFB, Sub(RSC, RSS))) ELSE RSS

\* the rate of spread whatever the option
C6calcAlwaysROS(FUELTYPE, ISI, BUI, FMC, SFC, CBH, option) ==
  rateOfSpreadC6(crownRateOfSpreadC6(ISI, FMC),
                 surfaceRateOfSpreadC6(intermediateSurfaceRateOfSpreadC6(ISI), BUI),
                 crownFractionBurnedC6(crownRateOfSpreadC6(ISI, FMC),
                   surfaceRateOfSpreadC6(intermediateSurfaceRateOfSpreadC6(ISI), BUI),
                   surfaceFireRateOfSpread(criticalSurfaceIntensity(FMC, CBH), SFC)))

\* the value C6calc returns for the option, "CFB" when the argument is omitted
\* ("undefined")
Selected(option, RSI, RSC, RSS, CFB) ==
  IF option = "RSI" THEN RSI
  ELSE IF option = "RSC" THEN RSC
  ELSE IF option \in {"CFB", "undefined"} THEN CFB
  ELSE rateOfSpreadC6(RSC, RSS, CFB)

\* C6calc from RSI, RSC, RSS and RSO
Crowned(option, RSI, RSC, RSS, RSO) ==
  Selected(option, RSI, RSC, RSS, crownFractionBurnedC6(RSC, RSS, RSO))

\* C6calc from RSI
Surfaced(ISI, BUI, FMC, SFC, CBH, option, RSI) ==
  Crowned(option, RSI, crownRateOfSpreadC6(ISI, FMC), surfaceRateOfSpreadC6(RSI, BUI),
          surfaceFireRateOfSpread(criticalSurfaceIntensity(FMC, CBH), SFC))

C6calc(FUELTYPE, ISI, BUI, FMC, SFC, CBH, option) ==
  Surfaced(ISI, BUI, FMC, SFC, CBH, option, intermediateSurfaceRateOfSpreadC6(ISI))

\* ------------------------------------------------------------------------
\* Rate of spread
\* ------------------------------------------------------------------------
Fill(n, v) == [i \in 1..n |-> v]

\* the curve without "1 -"
CurveDecaying(fuel, ISI) ==
  Mul(a[fuel], Pow(Exp(Mul(Neg(b[fuel]), ISI)), c0[fuel]))

\* a[fuel] * (1 - exp(-b[fuel] * ISI)) ^ c0[fuel]
Curve(fuel, ISI) ==
  Mul(a[fuel], Pow(Sub(N(1), Exp(Mul(Neg(b[fuel]), ISI))), c0[fuel]))

\* the recursive call with the caller's BUI passed on
SubCallWithBUI(params, fuel) ==
  [params EXCEPT !.FUELTYPE = Fill(Len(params.ISI), fuel)]

\* the arguments of the recursive call for observation i: every fuel type
\* replaced by fuel, NoBUI in place of BUI
SubCall(params, fuel) ==
  [params EXCEPT !.FUELTYPE = Fill(Len(params.ISI), fuel),
                 !.BUI = Fill(Len(params.ISI), N(-1))]

\* curing factor of the grass fuel types
CF(CC) ==
  IF Lt(CC, F(588, -1)) THEN Mul(F(5, -3), Sub(Exp(Mul(F(61, -3), CC)), N(1)))
  ELSE Add(F(176, -3), Mul(F(2, -2), Sub(CC, F(588, -1))))

\* the floor with < in place of <=
ConstrainBelowZero(ros) == IF Lt(ros, Zero) THEN F(1, -6) ELSE ros

\* ros <= 0 ? 0.000001 : ros
Constrain(ros) == IF Le(ros, Zero) THEN F(1, -6) ELSE ros

\* the recursive calls rateOfSpreadExtended makes for observation i
Calls(params, i) ==
  LET ft == params.FUELTYPE[i]
  IN  IF ft \in {"M1", "M2"} THEN <<SubCall(params, "C2"), SubCall(params, "D1")>>
      ELSE IF ft \in {"M3", "M4"} THEN <<SubCall(params, "D1")>>
      ELSE <<>>

\* One element of the arrays rateOfSpreadExtended returns, observation i of
\* params; rateOfSpread(params)[i] is its field ROS.
RECURSIVE Observation(_, _)

\* RSI of observation i after every pass of rateOfSpreadExtended over it
RSIAt(params, i) ==
  LET ft  == params.FUELTYPE[i]
      ISI == params.ISI[i]
      PC  == params.PC[i]
      PDF == params.PDF[i]
  IN  IF ft \in {"C1", "C2", "C3", "C4", "C5", "C7", "D1", "S1", "S2", "S3"}
      THEN Curve(ft, ISI)
      ELSE IF ft = "M1"
      THEN Add(Mul(Div(PC, N(100)), Observation(SubCall(params, "C2"), i).ROS),
               Mul(Div(Sub(N(100), PC), N(100)),
                   Observation(SubCall(params, "D1"), i).ROS))
      ELSE IF ft = "M2"
      THEN Add(Mul(Div(PC, N(100)), Observation(SubCall(params, "C2"), i).ROS),
               Mul(Mul(F(2, -1), Div(Sub(N(100), PC), N(100))),
                   Observation(SubCall(params, "D1"), i).ROS))
      ELSE IF ft = "M3"
      THEN Add(Mul(Div(PDF, N(100)), Curve("M3", ISI)),
               Mul(Sub(N(1), Div(PDF, N(100))),
                   Observation(SubCall(params, "D1"), i).ROS))
      ELSE IF ft = "M4"
      THEN Add(Mul(Div(PDF, N(100)), Curve("M4", ISI)),
               Mul(Mul(F(2, -1), Sub(N(1), Div(PDF, N(100)))),
                   Observation(SubCall(params, "D1"), i).ROS))
      ELSE IF ft \in {"O1A", "O1B"}
      THEN Mul(Curve(ft, ISI), CF(params.CC[i]))
      ELSE IF ft = "C6"
      THEN intermediateSurfaceRateOfSpreadC6(ISI)
      ELSE N(-1)

\* RSC of observation i
RSCAt(params, i) ==
  IF params.FUELTYPE[i] = "C6" THEN crownRateOfSpreadC6(params.ISI[i], params.FMC[i])
  ELSE NaN

\* RSS from RSI
RSSOf(ft, BUI, RSI) ==
  IF ft = "C6" THEN surfaceRateOfSpreadC6(RSI, BUI) ELSE Mul(buildupEffect(ft, BUI), RSI)

\* RSS of observation i
RSSAt(params, i) == RSSOf(params.FUELTYPE[i], params.BUI[i], RSIAt(params, i))

\* CFB from RSC, RSS and RSO
CFBOf(ft, RSC, RSS, RSO) ==
  IF ft = "C6" THEN crownFractionBurnedC6(RSC, RSS, RSO) ELSE crownFractionBurned(RSS, RSO)

\* ROS (before it is constrained) from RSC, RSS and CFB
ROSOf(ft, RSC, RSS, CFB) == IF ft = "C6" THEN rateOfSpreadC6(RSC, RSS, CFB) ELSE RSS

\* the element returned, given CFB
Element(ft, RSC, RSS, CSI, RSO, CFB) ==
  [ROS |-> Constrain(ROSOf(ft, RSC, RSS, CFB)), CFB |-> CFB, CSI |-> CSI, RSO |-> RSO]

\* the element returned, given RSC, RSS and CSI
Coupled(ft, RSC, RSS, CSI, SFC) ==
  LET RSO == surfaceFireRateOfSpread(CSI, SFC)
  IN  Element(ft, RSC, RSS, CSI, RSO, CFBOf(ft, RSC, RSS, RSO))

Observation(params, i) ==
  Coupled(params.FUELTYPE[i], RSCAt(params, i), RSSAt(params, i),
          criticalSurfaceIntensity(params.FMC[i], params.CBH[i]), params.SFC[i])

\* Observation(params, 1), ..., Observation(params, n)
RECURSIVE Observations(_, _)
Observations(params, n) ==
  IF n = 0 THEN <<>> ELSE Append(Observations(params, n - 1), Observation(params, n))

\* the arrays of the ROSResult, from its elements o[1], ..., o[n]
Arrays(n, o) ==
  [ROS |-> [i \in 1..n |-> o[i].ROS], CFB |-> [i \in 1..n |-> o[i].CFB],
   CSI |-> [i \in 1..n |-> o[i].CSI], RSO |-> [i \in 1..n |-> o[i].RSO]]

rateOfSpreadExtended(params) ==
  Arrays(Len(params.ISI), Observations(params, Len(params.ISI)))

rateOfSpread(params) == rateOfSpreadExtended(params).ROS

\* ------------------------------------------------------------------------
\* Initial spread index
\* ------------------------------------------------------------------------
initialSpreadIndex(ffmc, ws, fbpMod) ==
  LET FFMC_COEFFICIENT == F(595, -1)
      fm == Div(Mul(FFMC_COEFFICIENT, Sub(N(101), ffmc)), Add(F(595, -1), ffmc))
      fW == IF Ge(ws, N(40)) /\ fbpMod
            THEN Mul(N(12), Sub(N(1), Exp(Mul(F(-818, -4), Sub(ws, N(28))))))
            ELSE Exp(Mul(F(5039, -5), ws))
      fF == Mul(Mul(F(919, -1), Exp(Mul(F(-1386, -4), fm))),
                Add(N(1), Div(Pow(fm, F(531, -2)), N(49300000))))
  IN  Mul(Mul(F(208, -3), fW), fF)

\* ------------------------------------------------------------------------
\* Slope adjustment
\* ------------------------------------------------------------------------
\* null
Null == [k |-> "null", m |-> 0, e |-> 0]

\* array.includes(element)
Includes(array, element) == \E i \in 1..Len(array) : array[i] = element

\* array.map(fuel => from.includes(fuel) ? to : fuel)
Replaced(array, from, to) ==
  [i \in 1..Len(array) |-> IF array[i] \in from THEN to ELSE array[i]]

\* the slope factor without the plateau
SFUnbounded(gs) == Exp(Mul(F(3533, -3), Pow(Div(gs, N(100)), F(12, -1))))

\* the slope factor of one observation
SF(gs) ==
  IF Ge(gs, N(70)) THEN N(10)
  ELSE Exp(Mul(F(3533, -3), Pow(Div(gs, N(100)), F(12, -1))))

\* the spread index without wind
ISZ(FFMC) == [i \in 1..Len(FFMC) |-> initialSpreadIndex(FFMC[i], Zero, FALSE)]

\* RSZ.map((rsz, i) => rsz * SF[i])
Scaled(RSZ, GS) == [i \in 1..Len(RSZ) |-> Mul(RSZ[i], SF(GS[i]))]

\* rateOfSpread at ISZ without the buildup effect, with the fuel types and
\* the PDF given, times SF
RSFOf(s, FUELTYPE, PDF) ==
  Scaled(rateOfSpread([FUELTYPE |-> FUELTYPE, ISI |-> ISZ(s.FFMC),
                       BUI |-> Fill(Len(s.FFMC), N(-1)), FMC |-> s.FMC,
                       SFC |-> s.SFC, PC |-> s.PC, PDF |-> PDF, CC |-> s.CC,
                       CBH |-> s.CBH]), s.GS)

PDF100(s) == Fill(Len(s.ISI), N(100))

\* the argument of Math.log without the lower limit
LogArgumentAsIs(expValue) == expValue

\* the argument of Math.log: expValue >= 0.01 ? expValue : 0.01
LogArgument(expValue) == IF Ge(expValue, F(1, -2)) THEN expValue ELSE F(1, -2)

\* the ISF from the argument of the logarithm, with the values it comes from
Logged(rsf, aa, fuel, expValue) ==
  [RSF |-> rsf, a |-> aa, fuel |-> fuel, expValue |-> expValue,
   ISF |-> Div(Ln(LogArgument(expValue)), Neg(b[fuel]))]

\* the ISF at which the curve of fuel, with asymptote aa, reaches rsf
Inverted(rsf, aa, fuel) ==
  Logged(rsf, aa, fuel, Sub(N(1), Pow(Div(rsf, aa), Div(N(1), c0[fuel]))))

\* the recombination with the factor 0.2 on the D1 component
RecombinedFifth(percent, ISF_conifer, ISF_D1) ==
  Add(Mul(Div(percent, N(100)), ISF_conifer),
      Mul(Mul(F(2, -1), Sub(N(1), Div(percent, N(100)))), ISF_D1))

\* percent / 100 * ISF_conifer + (1 - percent / 100) * ISF_D1
Recombined(percent, ISF_conifer, ISF_D1) ==
  Add(Mul(Div(percent, N(100)), ISF_conifer),
      Mul(Sub(N(1), Div(percent, N(100))), ISF_D1))

isBasic(fuel) ==
  fuel \in {"C1", "C2", "C3", "C4", "C5", "C6", "C7", "D1", "S1", "S2", "S3"}

\* the inversions slopeAdjustment makes for observation i: the fuel types and
\* the PDF of the rateOfSpread call, the fuel type whose curve is inverted and
\* its asymptote
Components(s, i) ==
  LET fuel == s.FUELTYPE[i]
      FT == s.FUELTYPE
  IN  IF isBasic(fuel)
      THEN <<[FUELTYPE |-> FT, PDF |-> s.PDF, fuel |-> fuel, a |-> a[fuel]]>>
      ELSE IF fuel \in {"M1", "M2"}
      THEN <<[FUELTYPE |-> Replaced(FT, {"M1", "M2"}, "C2"), PDF |-> s.PDF,
              fuel |-> "C2", a |-> a["C2"]],
             [FUELTYPE |-> Replaced(FT, {"M1", "M2"}, "D1"), PDF |-> s.PDF,
              fuel |-> "D1", a |-> a["D1"]]>>
      ELSE IF fuel \in {"M3", "M4"}
      THEN <<[FUELTYPE |-> Replaced(FT, {fuel}, fuel), PDF |-> PDF100(s),
              fuel |-> fuel, a |-> a[fuel]],
             [FUELTYPE |-> Replaced(FT, {fuel}, "D1"), PDF |-> PDF100(s),
              fuel |-> "D1", a |-> a["D1"]]>>
      ELSE IF fuel \in {"O1A", "O1B"}
      THEN <<[FUELTYPE |-> FT, PDF |-> s.PDF, fuel |-> fuel,
              a |-> Mul(CF(s.CC[i]), a[fuel])]>>
      ELSE <<>>

RECURSIVE ISFs(_, _, _)
\* each of the inversions: its RSF, its asymptote, its fuel type, the argument
\* of its logarithm and its ISF
ISFs(s, i, components) ==
  IF components = <<>> THEN <<>>
  ELSE <<Inverted(RSFOf(s, Head(components).FUELTYPE, Head(components).PDF)[i],
                  Head(components).a, Head(components).fuel)>>
       \o ISFs(s, i, Tail(components))

\* ISF from the ISF of each inversion
Combined(fuel, PC, PDF, isfs) ==
  IF isBasic(fuel) \/ fuel \in {"O1A", "O1B"} THEN isfs[1].ISF
  ELSE IF fuel \in {"M1", "M2"} THEN Recombined(PC, isfs[1].ISF, isfs[2].ISF)
  ELSE IF fuel \in {"M3", "M4"} THEN Recombined(PDF, isfs[1].ISF, isfs[2].ISF)
  ELSE N(-99)

\* ISF of observation i of the arguments s
ISF(s, i) == Combined(s.FUELTYPE[i], s.PC[i], s.PDF[i], ISFs(s, i, Components(s, i)))

m(ffmc) == Sub(N(101), ffmc)

fF(mVal) ==
  Mul(Mul(F(919, -1), Exp(Mul(F(-1386, -4), mVal))),
      Add(N(1), Div(Pow(mVal, F(531, -2)), F(493, 5))))

\* the slope equivalent wind speed of the low wind equation
WSE(isf, ff) ==
  Mul(Div(N(1), F(5039, -5)), Ln(Div(isf, Mul(F(208, -3), ff))))

\* the high wind equation whatever the argument of its logarithm
adjustedWSEUnguarded(wse, isf, ff) ==
  IF Gt(wse, N(40))
  THEN Sub(N(28), Mul(Div(N(1), F(818, -4)),
                      Ln(Sub(N(1), Div(isf, Mul(F(2496, -3), ff))))))
  ELSE wse

adjustedWSE(wse, isf, ff) ==
  IF Gt(wse, N(40)) /\ Lt(isf, Mul(Mul(F(999, -3), F(2496, -3)), ff))
  THEN Sub(N(28), Mul(Div(N(1), F(818, -4)),
                      Ln(Sub(N(1), Div(isf, Mul(F(2496, -3), ff))))))
  ELSE IF Gt(wse, N(40)) /\ Ge(isf, Mul(Mul(F(999, -3), F(2496, -3)), ff))
  THEN F(11245, -2)
  ELSE wse

WSX(ws, WAZ, wse, SAZ) == Add(Mul(ws, Sin(WAZ)), Mul(wse, Sin(SAZ)))
WSY(ws, WAZ, wse, SAZ) == Add(Mul(ws, Cos(WAZ)), Mul(wse, Cos(SAZ)))
WSV(wsx, wsy) == Sqrt(Add(Mul(wsx, wsx), Mul(wsy, wsy)))
RAZ(wsy, wsv) == Acos(Div(wsy, wsv))

\* the azimuth with 2 * pi added
adjustedRAZAdded(wsx, raz) == IF Lt(wsx, Zero) THEN Add(Mul(N(2), PI), raz) ELSE raz

adjustedRAZ(wsx, raz) == IF Lt(wsx, Zero) THEN Sub(Mul(N(2), PI), raz) ELSE raz

\* the values slopeAdjustment computes for one observation, each from the
\* ones before it
Composed(sf, isz, isf, ff, low, wse, wsx, wsy, wsv, raz) ==
  [SF |-> sf, ISZ |-> isz, ISF |-> isf, fF |-> ff, WSE |-> low, adjustedWSE |-> wse,
   WSX |-> wsx, WSY |-> wsy, WSV |-> wsv, RAZ |-> raz,
   adjustedRAZ |-> adjustedRAZ(wsx, raz)]

Measured(sf, isz, isf, ff, low, wse, wsx, wsy, wsv) ==
  Composed(sf, isz, isf, ff, low, wse, wsx, wsy, wsv, RAZ(wsy, wsv))

Summed(sf, isz, isf, ff, low, wse, wsx, wsy) ==
  Measured(sf, isz, isf, ff, low, wse, wsx, wsy, WSV(wsx, wsy))

Resolved(sf, isz, ws, WAZ, SAZ, isf, ff, low, wse) ==
  Summed(sf, isz, isf, ff, low, wse, WSX(ws, WAZ, wse, SAZ), WSY(ws, WAZ, wse, SAZ))

Equivalent(sf, isz, ws, WAZ, SAZ, isf, ff, low) ==
  Resolved(sf, isz, ws, WAZ, SAZ, isf, ff, low, adjustedWSE(low, isf, ff))

Recovered(sf, isz, ws, WAZ, SAZ, isf, ff) ==
  Equivalent(sf, isz, ws, WAZ, SAZ, isf, ff, WSE(isf, ff))

\* the values slopeAdjustment computes for observation i of the arguments s:
\* those after ISF only when there is no NF and no WA among the fuel types
Locals(s, i, sf, isz, isfs, isf) ==
  [ISFs |-> isfs] @@
  (IF Includes(s.FUELTYPE, "NF") \/ Includes(s.FUELTYPE, "WA")
   THEN [SF |-> sf, ISZ |-> isz, ISF |-> isf]
   ELSE Recovered(sf, isz, s.WS[i], s.WAZ[i], s.SAZ[i], isf, fF(m(s.FFMC[i]))))

\* the same, given the ISF of each inversion made for the observation
Inverse(s, i, sf, isz, isfs) ==
  Locals(s, i, sf, isz, isfs, Combined(s.FUELTYPE[i], s.PC[i], s.PDF[i], isfs))

\* the values a call of slopeAdjustment computes, one record for each
\* observation
LocalsOf(s) ==
  [i \in 1..Len(s.FFMC) |->
     Inverse(s, i, SF(s.GS[i]), ISZ(s.FFMC)[i], ISFs(s, i, Components(s, i)))]

\* the result of slopeAdjustment, given the values it computed
Returned(s, t) ==
  IF Includes(s.FUELTYPE, "NF") \/ Includes(s.FUELTYPE, "WA")
  THEN [i \in 1..Len(s.FFMC) |-> [WSV |-> Null, RAZ |-> Null]]
  ELSE [i \in 1..Len(s.FFMC) |-> [WSV |-> t[i].WSV, RAZ |-> t[i].adjustedRAZ]]

slopeAdjustment(s) == Returned(s, LocalsOf(s))

\* ------------------------------------------------------------------------
\* Calls of the engine
\* ------------------------------------------------------------------------
VARIABLES
  pc,        \* "ready": an observation is given and no call is made yet,
             \* "given": arguments of slopeAdjustment are given, one observation
             \*   or two, and no call is made yet,
             \* "done": rateOfSpreadExtended returned for it,
             \* "again": it returned for the same observation at a higher ISI,
             \* "idle": no observation is given and no call is made yet,
             \* "helper": one helper function returned,
             \* "helper2": crownFractionBurned returned again, at a higher ROS,
             \* "c6": C6calc returned for the observation of the last call,
             \* "slope": slopeAdjustment returned
  params,    \* the InputParams of the call (arrays of one observation)
  ros,       \* the ROSResult returned for params
  prev,      \* ISI and ROS of the preceding call with the same other inputs
  call,      \* the last helper call: function, arguments x, y, z, returned value
  prevCall,  \* the crownFractionBurned call before it, at a lower ROS
  c6,        \* the last C6calc call: its option and the returned value
  slope,     \* the arguments of the slopeAdjustment call (arrays)
  locals,    \* the values that call computed, for each observation
  adjusted,  \* the array of { WSV, RAZ } it returned
  season,          \* the arguments of the fireSeason call
  dayIndex,        \* the day k its scan has reached
  seasonActive,    \* whether a fire season is open at that day
  seasonStartEnd,  \* the records pushed so far, then the list returned
  input,     \* the arguments of the fwi, gfmc or sdmc call
  step,      \* the time step i its loop has reached
  old,       \* the codes carried to that step (ffmc_yda .., GFMCold, sdmc_old)
  passed,    \* the previous codes passed for each row computed so far
  output,    \* the codes computed so far, then the values returned
  args,      \* the arguments of a call of one of the other functions
  result     \* the value that call returned

spreadVars == <<params, ros, prev, call, prevCall, c6, slope, locals, adjusted>>
seasonVars == <<season, dayIndex, seasonActive, seasonStartEnd>>
batchVars == <<input, step, old, passed, output>>
callVars == <<args, result>>

vars == <<pc, params, ros, prev, call, prevCall, c6, slope, locals, adjusted,
          season, dayIndex, seasonActive, seasonStartEnd, input, step, old, passed,
          output,
          args, result>>

\* bounds of the input grids
MaxISIStep == 3
MaxBUIStep == 1
MaxROSPower == 4

RECURSIVE FourTo(_)
FourTo(n) == IF n = 0 THEN 1 ELSE 4 * FourTo(n - 1)

OtherFuel == "NF"
ISIValues == {N(-1), Zero, F(1, -1)} \cup {N(8 * k) : k \in 1..MaxISIStep}
BUIValues == {N(-1), Zero} \cup {N(60 * k) : k \in 1..MaxBUIStep}
SFCValues == {Zero, N(1)}
CBHValues == {Zero, N(2)}
PercentValues == {Zero, N(50), N(100)}

\* the inputs a fuel type does not read stay at one value
FMCValues(fuel) == IF fuel = "C6" THEN {N(97), N(150), N(300)} ELSE {N(97)}
PCValues(fuel) == IF fuel \in {"M1", "M2"} THEN PercentValues ELSE {N(50)}
PDFValues(fuel) == IF fuel \in {"M3", "M4"} THEN PercentValues ELSE {N(50)}
CCValues(fuel) == IF fuel \in {"O1A", "O1B"} THEN PercentValues ELSE {N(50)}

\* arguments of the helper calls
HelperBUIValues == BUIValues \cup {F(5, -1), N(30), PInf, NInf}
HelperROSValues == {Zero, F(1, -20), F(1, -6)} \cup {N(FourTo(k)) : k \in 0..MaxROSPower}
HelperRSOValues == {Zero, N(2), PInf, NaN}
SpreadValues == {N(-4), Zero, N(1), N(4), N(16)}
HelperCFBValues == {Zero, F(5, -1), F(999999, -6)}

NoParams == [FUELTYPE |-> <<>>, ISI |-> <<>>, BUI |-> <<>>, FMC |-> <<>>, SFC |-> <<>>,
             PC |-> <<>>, PDF |-> <<>>, CC |-> <<>>, CBH |-> <<>>]
NoResult == [ROS |-> <<>>, CFB |-> <<>>, CSI |-> <<>>, RSO |-> <<>>]
NoPrev == [ISI |-> <<>>, ROS |-> <<>>]
NoCall == [fn |-> "none", fuel |-> "", x |-> Zero, y |-> Zero, z |-> Zero, out |-> Zero]
NoC6 == [option |-> "none", out |-> Zero]
NoSlope == [FUELTYPE |-> <<>>, FFMC |-> <<>>, BUI |-> <<>>, WS |-> <<>>, WAZ |-> <<>>,
            GS |-> <<>>, SAZ |-> <<>>, FMC |-> <<>>, SFC |-> <<>>, PC |-> <<>>,
            PDF |-> <<>>, CC |-> <<>>, CBH |-> <<>>, ISI |-> <<>>]

\* arguments of slopeAdjustment
FFMCValues == {Zero, N(85), N(101)}
GSValues == {Zero, F(69995, -3), N(70), N(90)}
\* a wind as weak as the equivalent slope wind speed recovered on level ground
\* at FFMC = 101, where it is 0 but for the rounding of the inversion
WeakWind == F(416753, -9)
\* wind speed, wind azimuth and slope azimuth
WindValues(gs) ==
  IF gs \in {Zero, N(70)}
  THEN {<<Zero, Zero, Zero>>, <<N(10), Zero, Zero>>, <<N(10), Div(PI, N(2)), PI>>,
        <<N(10), Mul(F(15, -1), PI), Zero>>}
       \cup (IF gs = Zero THEN {<<WeakWind, Zero, Zero>>} ELSE {})
  ELSE {<<N(10), Zero, Zero>>}
OptionValues == {"RSI", "RSC", "CFB", "ROS", "undefined"}

\* one observation of the arguments of slopeAdjustment
SlopeOf(fuel, ffmc, gs, wind, percent) ==
  [FUELTYPE |-> <<fuel>>, FFMC |-> <<ffmc>>, BUI |-> <<N(60)>>, WS |-> <<wind[1]>>,
   WAZ |-> <<wind[2]>>, GS |-> <<gs>>, SAZ |-> <<wind[3]>>, FMC |-> <<N(97)>>,
   SFC |-> <<N(1)>>, PC |-> <<percent>>, PDF |-> <<percent>>, CC |-> <<percent>>,
   CBH |-> <<N(2)>>, ISI |-> <<N(8)>>]

\* the arguments first followed by the arguments rest
Batch(first, rest) == [f \in DOMAIN first |-> first[f] \o rest[f]]

\* the observations that follow the first one in a call
RestValues(ffmc, gs) ==
  {NoSlope} \cup
  (IF ffmc = N(85) /\ gs = F(69995, -3)
   THEN {SlopeOf(fuel, N(85), N(70), <<N(10), Zero, Zero>>, N(50)) :
           fuel \in {"NF", "WA", "C2", "M1"}}
   ELSE {})

\* no fireSeason call, no fwi, gfmc or sdmc call, no call of another function
NoSeason == season = <<>> /\ dayIndex = 0 /\ seasonActive = FALSE /\ seasonStartEnd = <<>>
NoBatch == input = <<>> /\ step = 0 /\ old = <<>> /\ passed = <<>> /\ output = <<>>
NoArgs == args = <<>> /\ result = <<>>
NoSpread ==
  /\ params = NoParams /\ ros = NoResult /\ prev = NoPrev /\ call = NoCall
  /\ prevCall = NoCall /\ c6 = NoC6 /\ slope = NoSlope /\ locals = <<>>
  /\ adjusted = <<>>

Init ==
  /\ \/ /\ pc = "ready"
        /\ \E fuel \in FuelTypes \cup {OtherFuel} :
             \E isi \in ISIValues, bui \in BUIValues, fmc \in FMCValues(fuel),
                sfc \in SFCValues, cbh \in CBHValues, pcv \in PCValues(fuel),
                pdf \in PDFValues(fuel), cc \in CCValues(fuel) :
               params = [FUELTYPE |-> <<fuel>>, ISI |-> <<isi>>, BUI |-> <<bui>>,
                         FMC |-> <<fmc>>, SFC |-> <<sfc>>, PC |-> <<pcv>>,
                         PDF |-> <<pdf>>, CC |-> <<cc>>, CBH |-> <<cbh>>]
        /\ slope = NoSlope
     \/ /\ pc = "idle"
        /\ params = NoParams
        /\ slope = NoSlope
     \/ /\ pc = "given"
        /\ params = NoParams
        /\ \E fuel \in FuelTypes \cup {"NF", "WA"}, ffmc \in FFMCValues, gs \in GSValues :
             \E wind \in WindValues(gs), rest \in RestValues(ffmc, gs),
                percent \in PCValues(fuel) \cup PDFValues(fuel) \cup CCValues(fuel) :
               slope = Batch(SlopeOf(fuel, ffmc, gs, wind, percent), rest)
  /\ ros = NoResult
  /\ prev = NoPrev
  /\ call = NoCall
  /\ prevCall = NoCall
  /\ c6 = NoC6
  /\ locals = <<>>
  /\ adjusted = <<>>
  /\ NoSeason
  /\ NoBatch
  /\ NoArgs

\* rateOfSpreadExtended(params)
CallRateOfSpreadExtended ==
  /\ pc = "ready"
  /\ ros' = rateOfSpreadExtended(params)
  /\ pc' = "done"
  /\ UNCHANGED <<params, prev, call, prevCall, c6, slope, locals, adjusted>>
  /\ UNCHANGED <<seasonVars, batchVars, callVars>>

\* the same observation again, at the next higher ISI
CallAtHigherISI ==
  /\ pc \in {"done", "again"}
  /\ \E isi \in ISIValues :
       /\ Gt(isi, params.ISI[1])
       /\ \A other \in ISIValues : ~(Gt(other, params.ISI[1]) /\ Lt(other, isi))
       /\ params' = [params EXCEPT !.ISI = <<isi>>]
  /\ ros' = rateOfSpreadExtended(params')
  /\ prev' = [ISI |-> params.ISI, ROS |-> ros.ROS]
  /\ pc' = "again"
  /\ UNCHANGED <<call, prevCall, c6, slope, locals, adjusted>>
  /\ UNCHANGED <<seasonVars, batchVars, callVars>>

\* buildupEffect(FUELTYPE, BUI)
CallBuildupEffect ==
  /\ pc = "idle"
  /\ \E fuel \in FuelTypes \cup {OtherFuel}, BUI \in HelperBUIValues :
       call' = [fn |-> "buildupEffect", fuel |-> fuel, x |-> BUI, y |-> Zero,
                z |-> Zero, out |-> buildupEffect(fuel, BUI)]
  /\ pc' = "helper"
  /\ UNCHANGED <<params, ros, prev, prevCall, c6, slope, locals, adjusted>>
  /\ UNCHANGED <<seasonVars, batchVars, callVars>>

\* crownFractionBurned(ROS, RSO)
CallCrownFractionBurned ==
  /\ pc = "idle"
  /\ \E ROS \in HelperROSValues, RSO \in HelperRSOValues :
       call' = [fn |-> "crownFractionBurned", fuel |-> "", x |-> ROS, y |-> RSO,
                z |-> Zero, out |-> crownFractionBurned(ROS, RSO)]
  /\ pc' = "helper"
  /\ UNCHANGED <<params, ros, prev, prevCall, c6, slope, locals, adjusted>>
  /\ UNCHANGED <<seasonVars, batchVars, callVars>>

\* crownFractionBurned(ROS, RSO) again, with the same RSO and a higher ROS
CallCrownFractionBurnedAgain ==
  /\ pc = "helper"
  /\ call.fn = "crownFractionBurned"
  /\ \E ROS \in HelperROSValues :
       /\ Gt(ROS, call.x)
       /\ call' = [call EXCEPT !.x = ROS, !.out = crownFractionBurned(ROS, call.y)]
  /\ prevCall' = call
  /\ pc' = "helper2"
  /\ UNCHANGED <<params, ros, prev, c6, slope, locals, adjusted>>
  /\ UNCHANGED <<seasonVars, batchVars, callVars>>

\* crownFractionBurnedC6(RSC, RSS, RSO)
CallCrownFractionBurnedC6 ==
  /\ pc = "idle"
  /\ \E RSC \in SpreadValues \cup {NaN}, RSS \in SpreadValues,
        RSO \in HelperRSOValues \cup {N(1)} :
       call' = [fn |-> "crownFractionBurnedC6", fuel |-> "C6", x |-> RSC, y |-> RSS,
                z |-> RSO, out |-> crownFractionBurnedC6(RSC, RSS, RSO)]
  /\ pc' = "helper"
  /\ UNCHANGED <<params, ros, prev, prevCall, c6, slope, locals, adjusted>>
  /\ UNCHANGED <<seasonVars, batchVars, callVars>>

\* rateOfSpreadC6(RSC, RSS, CFB)
CallRateOfSpreadC6 ==
  /\ pc = "idle"
  /\ \E RSC \in SpreadValues, RSS \in SpreadValues, CFB \in HelperCFBValues :
       call' = [fn |-> "rateOfSpreadC6", fuel |-> "C6", x |-> RSC, y |-> RSS,
                z |-> CFB, out |-> rateOfSpreadC6(RSC, RSS, CFB)]
  /\ pc' = "helper"
  /\ UNCHANGED <<params, ros, prev, prevCall, c6, slope, locals, adjusted>>
  /\ UNCHANGED <<seasonVars, batchVars, callVars>>

\* C6calc("C6", ISI, BUI, FMC, SFC, CBH, option) for the observation of the call
\* that returned
CallC6calc ==
  /\ pc = "done"
  /\ params.FUELTYPE[1] = "C6"
  /\ \E option \in OptionValues :
       c6' = [option |-> option,
              out |-> C6calc("C6", params.ISI[1], params.BUI[1], params.FMC[1],
                             params.SFC[1], params.CBH[1], option)]
  /\ pc' = "c6"
  /\ UNCHANGED <<params, ros, prev, call, prevCall, slope, locals, adjusted>>
  /\ UNCHANGED <<seasonVars, batchVars, callVars>>

\* slopeAdjustment(FUELTYPE, FFMC, BUI, WS, WAZ, GS, SAZ, FMC, SFC, PC, PDF, CC,
\* CBH, ISI)
CallSlopeAdjustment ==
  /\ pc = "given"
  /\ locals' = LocalsOf(slope)
  /\ adjusted' = Returned(slope, locals')
  /\ pc' = "slope"
  /\ UNCHANGED <<params, ros, prev, call, prevCall, c6, slope>>
  /\ UNCHANGED <<seasonVars, batchVars, callVars>>

Next ==
  \/ CallC6calc
  \/ CallSlopeAdjustment
  \/ CallRateOfSpreadExtended
  \/ CallAtHigherISI
  \/ CallBuildupEffect
  \/ CallCrownFractionBurned
  \/ CallCrownFractionBurnedAgain
  \/ CallCrownFractionBurnedC6
  \/ CallRateOfSpreadC6

Spec == Init /\ [][Next]_vars

\* ------------------------------------------------------------------------
\* The observation of the current call
\* ------------------------------------------------------------------------
Called == pc \in {"done", "again"}
Fuel == params.FUELTYPE[1]
ISI1 == params.ISI[1]
BUI1 == params.BUI[1]
ROS1 == ros.ROS[1]
CFB1 == ros.CFB[1]
RSO1 == ros.RSO[1]

PC1 == params.PC[1]
SFC1 == params.SFC[1]
CBH1 == params.CBH[1]
RSI1 == RSIAt(params, 1)
RSC1 == RSCAt(params, 1)
RSS1 == RSSAt(params, 1)

\* rateOfSpread for the observation of the current call with another fuel type
ROSFor(fuel) == rateOfSpread([params EXCEPT !.FUELTYPE = <<fuel>>])[1]
\* the same with the buildup effect disabled
ROSNoBUIFor(fuel) ==
  rateOfSpread([params EXCEPT !.FUELTYPE = <<fuel>>, !.BUI = <<N(-1)>>])[1]

Max(x, y) == IF Gt(y, x) THEN y ELSE x

\* ------------------------------------------------------------------------
\* C1
\* ------------------------------------------------------------------------
\* C1 as stated: for every fuel type and every input without a NaN, the ROS
\* element returned is strictly greater than 0.
C1_AlwaysPositive == Called => Gt(ROS1, Zero)

\* C1: the ROS element returned is never <= 0 (a value <= 0 is replaced by
\* 1e-6, so an element that is not NaN is greater than 0), and it is greater
\* than 0 whenever ISI >= 0.
C1_NeverAtOrBelowZero ==
  Called => /\ ~Le(ROS1, Zero)
            /\ IsNaN(ROS1) \/ Gt(ROS1, Zero)
            /\ Ge(ISI1, Zero) => Gt(ROS1, Zero)

\* a value below zero was replaced by 1e-6
C1_Floored == Called /\ Lt(RSS1, Zero) /\ ROS1 = F(1, -6)

\* ------------------------------------------------------------------------
\* C2
\* ------------------------------------------------------------------------
\* C2 as stated: for each of the 17 fuel types, ISI = 0 gives RSI = 0 and a
\* returned ROS of exactly 1e-6.
C2_ZeroISI ==
  Called /\ Fuel \in FuelTypes /\ ISI1 = Zero => RSI1 = Zero /\ ROS1 = F(1, -6)

\* ------------------------------------------------------------------------
\* C3
\* ------------------------------------------------------------------------
\* the blend of the component curves as they are before any floor
RawBlend ==
  IF Fuel = "M1"
  THEN Add(Mul(Div(PC1, N(100)), Curve("C2", ISI1)),
           Mul(Div(Sub(N(100), PC1), N(100)), Curve("D1", ISI1)))
  ELSE IF Fuel = "M2"
  THEN Add(Mul(Div(PC1, N(100)), Curve("C2", ISI1)),
           Mul(Mul(F(2, -1), Div(Sub(N(100), PC1), N(100))), Curve("D1", ISI1)))
  ELSE IF Fuel = "M3"
  THEN Add(Mul(Div(params.PDF[1], N(100)), Curve("M3", ISI1)),
           Mul(Sub(N(1), Div(params.PDF[1], N(100))), Curve("D1", ISI1)))
  ELSE Add(Mul(Div(params.PDF[1], N(100)), Curve("M4", ISI1)),
           Mul(Mul(F(2, -1), Sub(N(1), Div(params.PDF[1], N(100)))), Curve("D1", ISI1)))

\* C3 as stated: for M1, M2, M3 and M4 every recursive call is made with
\* BUI = -1, RSI is the blend of the raw (undamped, unfloored) component
\* spread rates, and buildupEffect with the caller's BUI is applied once, to
\* that blend.
C3_RawComponents ==
  Called /\ Fuel \in {"M1", "M2", "M3", "M4"} =>
    /\ \A j \in 1..Len(Calls(params, 1)) : Calls(params, 1)[j].BUI[1] = N(-1)
    /\ RSI1 = RawBlend
    /\ ROS1 = Constrain(Mul(buildupEffect(Fuel, BUI1), RawBlend))

\* ------------------------------------------------------------------------
\* C4
\* ------------------------------------------------------------------------
\* C4 as stated: for M1 the ROS returned is the blend, weighted by PC, of the
\* ROS returned for C2 and for D1 at the same ISI and the same BUI.
C4_BlendAtSameBUI ==
  Called /\ Fuel = "M1" =>
    ROS1 = Add(Mul(Div(PC1, N(100)), ROSFor("C2")),
               Mul(Div(Sub(N(100), PC1), N(100)), ROSFor("D1")))

\* C4: for M1 the ROS returned is buildupEffect("M1", BUI) times the blend,
\* weighted by PC, of the ROS returned for C2 and for D1 at the same ISI with
\* BUI = -1, floored to 1e-6; it is the blend of the results at the same BUI
\* when BUI <= 0.
C4_BlendThenBuildup ==
  Called /\ Fuel = "M1" =>
    /\ ROS1 = Constrain(Mul(buildupEffect("M1", BUI1),
                            Add(Mul(Div(PC1, N(100)), ROSNoBUIFor("C2")),
                                Mul(Div(Sub(N(100), PC1), N(100)), ROSNoBUIFor("D1")))))
    /\ Le(BUI1, Zero) =>
         ROS1 = Add(Mul(Div(PC1, N(100)), ROSFor("C2")),
                    Mul(Div(Sub(N(100), PC1), N(100)), ROSFor("D1")))

\* M1 with PC = 50 at a BUI that damps C2 and lifts M1 and D1
C4_HalfAndHalf ==
  /\ Called /\ Fuel = "M1" /\ PC1 = N(50) /\ BUI1 = N(60) /\ ISI1 = N(8)
  /\ Lt(ROS1, ROSFor("C2")) /\ Gt(ROS1, ROSFor("D1"))

\* ------------------------------------------------------------------------
\* C5
\* ------------------------------------------------------------------------
\* C5: for C6 the crown fraction burned is greater than 0 only when RSC > RSS
\* and RSS > RSO, and is exactly 0 when either comparison fails (RSO infinite
\* or NaN included), in crownFractionBurnedC6 and in the CFB that
\* rateOfSpreadExtended returns.
C5_CrownNeedsBothOrderings ==
  /\ call.fn = "crownFractionBurnedC6" =>
       /\ Gt(call.out, Zero) => Gt(call.x, call.y) /\ Gt(call.y, call.z)
       /\ ~(Gt(call.x, call.y) /\ Gt(call.y, call.z)) => call.out = Zero
  /\ Called /\ Fuel = "C6" =>
       /\ Gt(CFB1, Zero) => Gt(RSC1, RSS1) /\ Gt(RSS1, RSO1)
       /\ ~(Gt(RSC1, RSS1) /\ Gt(RSS1, RSO1)) => CFB1 = Zero

\* a C6 surface fire above RSO whose crown rate is not above RSS
C5_NoCrownBelowSurface ==
  Called /\ Fuel = "C6" /\ Gt(RSS1, RSO1) /\ Gt(RSO1, Zero) /\ ~Gt(RSC1, RSS1)
         /\ CFB1 = Zero

\* ------------------------------------------------------------------------
\* C6
\* ------------------------------------------------------------------------
\* C6: rateOfSpreadC6 is RSS + CFB * (RSC - RSS) when RSC > RSS and RSS
\* otherwise; for CFB in [0, 1) it lies between RSS and max(RSS, RSC), it is
\* RSS when CFB = 0, and rateOfSpreadExtended returns it, floored, for C6.
C6_BetweenSurfaceAndCrown ==
  /\ call.fn = "rateOfSpreadC6" =>
       /\ call.out = IF Gt(call.x, call.y)
                     THEN Add(call.y, Mul(call.z, Sub(call.x, call.y)))
                     ELSE call.y
       /\ Ge(call.z, Zero) /\ Lt(call.z, N(1)) =>
            Le(call.y, call.out) /\ Le(call.out, Max(call.y, call.x))
       /\ call.z = Zero => call.out = call.y
  /\ Called /\ Fuel = "C6" =>
       /\ ROS1 = Constrain(IF Gt(RSC1, RSS1)
                           THEN Add(RSS1, Mul(CFB1, Sub(RSC1, RSS1)))
                           ELSE RSS1)
       /\ Gt(RSS1, Zero) /\ Lt(CFB1, N(1)) =>
            Le(RSS1, ROS1) /\ Le(ROS1, Max(RSS1, RSC1))
       /\ Gt(RSS1, Zero) /\ CFB1 = Zero => ROS1 = RSS1

\* a crowning C6 fire strictly between its surface and its crown rate
C6_PartlyCrowned ==
  Called /\ Fuel = "C6" /\ Gt(CFB1, Zero) /\ Lt(CFB1, N(1))
         /\ Gt(ROS1, RSS1) /\ Lt(ROS1, RSC1)

C8_BuildupEffect ==
  call.fn = "buildupEffect" =>
    IF Le(call.x, Zero) \/ ~Gt(Lookup(BUIo, call.fuel), Zero)
    THEN call.out = N(1)
    ELSE call.out = Exp(Mul(Mul(N(50), Ln(Lookup(Q, call.fuel))),
                            Sub(Div(N(1), call.x), Div(N(1), Lookup(BUIo, call.fuel)))))

\* BUI = 0 for a fuel type of the table
C8_ZeroBUI ==
  call.fn = "buildupEffect" /\ call.fuel \in FuelTypes /\ call.x = Zero
                            /\ call.out = N(1)

C10_ZeroSFCNeverCrowns ==
  Called /\ SFC1 = Zero =>
    /\ ~IsFin(RSO1)
    /\ CFB1 = Zero
    /\ ROS1 = Constrain(RSS1)

\* SFC = 0 and CBH = 0 (RSO is 0/0) for a C6 fire whose crown rate is above RSS
C10_ZeroOverZero ==
  Called /\ SFC1 = Zero /\ CBH1 = Zero /\ IsNaN(RSO1) /\ Fuel = "C6"
         /\ Gt(RSC1, RSS1) /\ CFB1 = Zero

\* ------------------------------------------------------------------------
\* The observations of the slopeAdjustment call
\* ------------------------------------------------------------------------
Adjusted == pc = "slope"
Observed == 1..Len(slope.FFMC)
SimpleFuels == {"C1", "C2", "C3", "C4", "C5", "C7", "D1", "S1", "S2", "S3"}
NonFuels == {"NF", "WA"}
\* no observation of the call is NF or WA
AllFuel == \A i \in Observed : slope.FUELTYPE[i] \notin NonFuels
IsNull(x) == x.k = "null"
IsNumber(x) == x.k \in {"fin", "nan", "inf"}
\* x and y are finite and differ by at most tol
Within(x, y, tol) == IsFin(x) /\ IsFin(y) /\ Le(Abs(Sub(x, y)), tol)

\* ------------------------------------------------------------------------
\* C11: for a simple fuel type and GS = 0, slopeAdjustment recovers an
\* equivalent slope wind speed WSE of 0 and returns WSV equal to WS, here
\* within 0.1 km/h, for every FFMC, WS, WAZ and SAZ.
\* ------------------------------------------------------------------------
RoundTripTolerance == F(1, -1)

C11_RoundTrip ==
  (Adjusted /\ AllFuel) =>
    \A i \in Observed :
      (slope.FUELTYPE[i] \in SimpleFuels /\ slope.GS[i] = Zero) =>
        /\ Within(locals[i].adjustedWSE, Zero, RoundTripTolerance)
        /\ Within(adjusted[i].WSV, slope.WS[i], RoundTripTolerance)

\* ------------------------------------------------------------------------
\* C12
\* ------------------------------------------------------------------------
MixedFuels == {"M1", "M2", "M3", "M4"}
\* the factor on the D1 component in rateOfSpreadExtended
ForwardD1Factor(fuel) == IF fuel \in {"M2", "M4"} THEN F(2, -1) ELSE N(1)
\* the percentage that weights the components of observation i
PercentOf(i) ==
  IF slope.FUELTYPE[i] \in {"M1", "M2"} THEN slope.PC[i] ELSE slope.PDF[i]
\* the two component ISF of observation i
ComponentISFs(i) == [j \in 1..Len(locals[i].ISFs) |-> locals[i].ISFs[j].ISF]
\* the forward blend of rateOfSpreadExtended
ForwardBlend(fuel, conifer, D1) ==
  IF fuel = "M1"
  THEN Add(Mul(Div(PC1, N(100)), conifer), Mul(Div(Sub(N(100), PC1), N(100)), D1))
  ELSE IF fuel = "M2"
  THEN Add(Mul(Div(PC1, N(100)), conifer),
           Mul(Mul(ForwardD1Factor(fuel), Div(Sub(N(100), PC1), N(100))), D1))
  ELSE Add(Mul(Div(params.PDF[1], N(100)), conifer),
           Mul(Mul(ForwardD1Factor(fuel), Sub(N(1), Div(params.PDF[1], N(100)))), D1))
\* the conifer (or M3, M4) component of the forward blend
ForwardConifer ==
  IF Fuel \in {"M1", "M2"} THEN ROSNoBUIFor("C2") ELSE Curve(Fuel, ISI1)

\* C12 as stated: the component ISF are recombined with the weights of the
\* forward model, the D1 component carrying the factor 1 for M1 and M3 and the
\* factor 0.2 for M2 and M4.
C12_SameWeights ==
  Adjusted =>
    \A i \in Observed :
      slope.FUELTYPE[i] \in MixedFuels =>
        locals[i].ISF =
          Add(Mul(Div(PercentOf(i), N(100)), ComponentISFs(i)[1]),
              Mul(Mul(ForwardD1Factor(slope.FUELTYPE[i]),
                      Sub(N(1), Div(PercentOf(i), N(100)))),
                  ComponentISFs(i)[2]))

\* C12: the component ISF are recombined with the weights percent / 100 and
\* 1 - percent / 100, the D1 component carrying the factor 1 for each of M1,
\* M2, M3 and M4, while the forward model gives the D1 component the factor 1
\* for M1 and M3 and the factor 0.2 for M2 and M4.
C12_WeightsSumToOne ==
  /\ Adjusted =>
       \A i \in Observed :
         slope.FUELTYPE[i] \in MixedFuels =>
           locals[i].ISF =
             Add(Mul(Div(PercentOf(i), N(100)), ComponentISFs(i)[1]),
                 Mul(Sub(N(1), Div(PercentOf(i), N(100))), ComponentISFs(i)[2]))
  /\ Called /\ Fuel \in MixedFuels =>
       ROS1 = Constrain(Mul(buildupEffect(Fuel, BUI1),
                            ForwardBlend(Fuel, ForwardConifer, ROSNoBUIFor("D1"))))

\* M2 on a slope, half conifer: the ISF lies strictly between the two
\* component ISF, which the factor 0.2 would not give
C12_MixedOnSlope ==
  /\ Adjusted /\ Len(slope.FFMC) = 1
  /\ slope.FUELTYPE[1] = "M2" /\ slope.PC[1] = N(50) /\ slope.GS[1] = N(70)
  /\ Gt(ComponentISFs(1)[1], Zero) /\ Gt(ComponentISFs(1)[2], Zero)
  /\ ComponentISFs(1)[1] # ComponentISFs(1)[2]
  /\ Gt(locals[1].ISF, IF Lt(ComponentISFs(1)[1], ComponentISFs(1)[2])
                       THEN ComponentISFs(1)[1] ELSE ComponentISFs(1)[2])
  /\ Lt(locals[1].ISF, Max(ComponentISFs(1)[1], ComponentISFs(1)[2]))
  /\ locals[1].ISF # RecombinedFifth(N(50), ComponentISFs(1)[1], ComponentISFs(1)[2])

\* ------------------------------------------------------------------------
\* C13
\* ------------------------------------------------------------------------
\* observation i of the arguments s, alone
Single(s, i) == [f \in DOMAIN s |-> <<s[f][i]>>]

\* C13 as stated, for slopeAdjustment: the result has one entry for each
\* observation, in the order given, and entry i is the result of the call made
\* with observation i alone, whatever the other observations are.
C13_BatchIndependence ==
  Adjusted =>
    /\ Len(adjusted) = Len(slope.FFMC)
    /\ \A i \in Observed : adjusted[i] = slopeAdjustment(Single(slope, i))[1]

\* ------------------------------------------------------------------------
\* C14
\* ------------------------------------------------------------------------
\* C14 as stated: WSV and RAZ of an observation are both null when its fuel
\* type is NF or WA, and neither is null when its fuel type is one of the 17
\* fuel types.
C14_NullExactlyForNonFuel ==
  Adjusted =>
    \A i \in Observed :
      /\ slope.FUELTYPE[i] \in NonFuels =>
           IsNull(adjusted[i].WSV) /\ IsNull(adjusted[i].RAZ)
      /\ slope.FUELTYPE[i] \in FuelTypes =>
           IsNumber(adjusted[i].WSV) /\ IsNumber(adjusted[i].RAZ)

WSECeiling == F(11245, -2)
\* the argument of the logarithm of the high wind equation for observation i
HighWindArgument(i) ==
  Sub(N(1), Div(locals[i].ISF, Mul(F(2496, -3), locals[i].fF)))

\* C16: the equivalent slope wind speed used in the vector sum is at most
\* 112.45; a low wind value above 40 is replaced by the high wind value, whose
\* logarithm is taken of a number greater than 0, or by 112.45, which is the
\* value whenever that number is not greater than 0; a low wind value of at
\* most 40 is kept.
C16_WindCeiling ==
  (Adjusted /\ AllFuel) =>
    \A i \in Observed :
      /\ Le(locals[i].adjustedWSE, WSECeiling)
      /\ Le(locals[i].WSE, N(40)) => locals[i].adjustedWSE = locals[i].WSE
      /\ Gt(locals[i].WSE, N(40)) =>
           \/ /\ Gt(HighWindArgument(i), Zero)
              /\ locals[i].adjustedWSE =
                   Sub(N(28), Mul(Div(N(1), F(818, -4)), Ln(HighWindArgument(i))))
           \/ locals[i].adjustedWSE = WSECeiling
      /\ (Gt(locals[i].WSE, N(40)) /\ Le(HighWindArgument(i), Zero)) =>
           locals[i].adjustedWSE = WSECeiling

\* a low wind value above 40 where the logarithm of the high wind equation
\* would be taken of a number below 0
C16_AtCeiling ==
  /\ Adjusted /\ AllFuel /\ Len(slope.FFMC) = 1
  /\ Gt(locals[1].WSE, N(40)) /\ Lt(HighWindArgument(1), Zero)
  /\ locals[1].adjustedWSE = WSECeiling
  /\ adjusted[1].WSV = Add(slope.WS[1], WSECeiling)

\* ------------------------------------------------------------------------
\* C17
\* ------------------------------------------------------------------------
LogFloor == F(1, -2)
\* the greatest ISF an inversion of the curve of fuel gives: ln(100) / b
ISFCeiling(fuel) == Div(Ln(LogFloor), Neg(b[fuel]))

\* C17: in each inversion (simple fuel types, each component of M1 to M4,
\* grass) x = 1 - (RSF / a)^(1 / c0) is the argument of the logarithm when
\* x >= 0.01 and 0.01 is otherwise, so that the ISF recovered is at most
\* ln(100) / b, also when RSF >= a.
C17_LogAtLeastHundredth ==
  Adjusted =>
    \A i \in Observed :
      \A j \in 1..Len(locals[i].ISFs) :
        /\ locals[i].ISFs[j].expValue =
             Sub(N(1), Pow(Div(locals[i].ISFs[j].RSF, locals[i].ISFs[j].a),
                           Div(N(1), c0[locals[i].ISFs[j].fuel])))
        /\ Ge(locals[i].ISFs[j].expValue, LogFloor) =>
             locals[i].ISFs[j].ISF =
               Div(Ln(locals[i].ISFs[j].expValue), Neg(b[locals[i].ISFs[j].fuel]))
        /\ ~Ge(locals[i].ISFs[j].expValue, LogFloor) =>
             locals[i].ISFs[j].ISF = ISFCeiling(locals[i].ISFs[j].fuel)
        /\ Le(locals[i].ISFs[j].ISF, ISFCeiling(locals[i].ISFs[j].fuel))

\* C2 on a steep slope: RSF is above the asymptote a and x is below 0
C17_AboveAsymptote ==
  /\ Adjusted /\ Len(slope.FFMC) = 1
  /\ slope.FUELTYPE[1] = "C2" /\ slope.FFMC[1] = N(101) /\ slope.GS[1] = N(70)
  /\ Ge(locals[1].ISFs[1].RSF, a["C2"])
  /\ Lt(locals[1].ISFs[1].expValue, Zero)
  /\ locals[1].ISF = ISFCeiling("C2")

\* ------------------------------------------------------------------------
\* C18
\* ------------------------------------------------------------------------
SFPlateau == N(10)
\* the greatest slope factor below GS = 70: exp(3.533 * 0.7^1.2), rounded up
SFBelowPlateau == F(100025, -4)
\* observation i alone, at the ground slope 70
AtPlateauStart(i) == [Single(slope, i) EXCEPT !.GS = <<N(70)>>]

\* C18 as stated: the slope factor is 10 for GS >= 70, where the result does
\* not depend on GS, and is exp(3.533 * (GS / 100)^1.2), never above 10, for
\* GS < 70.
C18_NeverAboveTen ==
  (Adjusted /\ AllFuel) =>
    \A i \in Observed :
      /\ Ge(slope.GS[i], N(70)) => locals[i].SF = SFPlateau
      /\ Gt(slope.GS[i], N(70)) => adjusted[i] = slopeAdjustment(AtPlateauStart(i))[1]
      /\ Lt(slope.GS[i], N(70)) =>
           /\ locals[i].SF = Exp(Mul(F(3533, -3), Pow(Div(slope.GS[i], N(100)), F(12, -1))))
           /\ Le(locals[i].SF, SFPlateau)

\* C18: the slope factor is 10 for GS >= 70, where the result does not depend
\* on GS; for GS < 70 it is exp(3.533 * (GS / 100)^1.2), which is at most
\* 10.0025 and is above 10 just below GS = 70.
C18_Plateau ==
  (Adjusted /\ AllFuel) =>
    \A i \in Observed :
      /\ Ge(slope.GS[i], N(70)) => locals[i].SF = SFPlateau
      /\ Gt(slope.GS[i], N(70)) => adjusted[i] = slopeAdjustment(AtPlateauStart(i))[1]
      /\ Lt(slope.GS[i], N(70)) =>
           /\ locals[i].SF = Exp(Mul(F(3533, -3), Pow(Div(slope.GS[i], N(100)), F(12, -1))))
           /\ Le(locals[i].SF, SFBelowPlateau)
           /\ slope.GS[i] = F(69995, -3) => Gt(locals[i].SF, SFPlateau)

\* a ground slope of 90, where the exponential is above 10 and the factor is 10
C18_OnPlateau ==
  /\ Adjusted /\ AllFuel /\ Len(slope.FFMC) = 1
  /\ slope.GS[1] = N(90)
  /\ Gt(SFUnbounded(slope.GS[1]), SFPlateau)
  /\ locals[1].SF = SFPlateau
  /\ IsFin(adjusted[1].WSV)
  /\ adjusted[1] = slopeAdjustment(AtPlateauStart(1))[1]

\* ------------------------------------------------------------------------
\* C19
\* ------------------------------------------------------------------------
TwoPi == Mul(N(2), PI)

\* C19 as stated: the azimuth returned is acos(WSY / WSV) when WSX >= 0 and
\* acos(WSY / WSV) with 2 * pi added when WSX < 0.
C19_TwoPiAdded ==
  (Adjusted /\ AllFuel) =>
    \A i \in Observed :
      /\ locals[i].RAZ = Acos(Div(locals[i].WSY, locals[i].WSV))
      /\ Ge(locals[i].WSX, Zero) => adjusted[i].RAZ = locals[i].RAZ
      /\ Lt(locals[i].WSX, Zero) => adjusted[i].RAZ = Add(locals[i].RAZ, TwoPi)

\* C19: the azimuth returned is acos(WSY / WSV) when WSX >= 0 and 2 * pi less
\* acos(WSY / WSV) when WSX < 0, so that it is at least 0 and at most 2 * pi
\* when it is a number.
C19_Reflected ==
  (Adjusted /\ AllFuel) =>
    \A i \in Observed :
      /\ locals[i].RAZ = Acos(Div(locals[i].WSY, locals[i].WSV))
      /\ Ge(locals[i].WSX, Zero) => adjusted[i].RAZ = locals[i].RAZ
      /\ Lt(locals[i].WSX, Zero) => adjusted[i].RAZ = Sub(TwoPi, locals[i].RAZ)
      /\ ~IsNaN(adjusted[i].RAZ) =>
           Ge(adjusted[i].RAZ, Zero) /\ Le(adjusted[i].RAZ, TwoPi)

\* a wind from the side that makes WSX negative: the azimuth is beyond pi
C19_WestwardSum ==
  /\ Adjusted /\ AllFuel /\ Len(slope.FFMC) = 1
  /\ Lt(locals[1].WSX, Zero)
  /\ Gt(locals[1].RAZ, Zero) /\ Lt(locals[1].RAZ, PI)
  /\ Gt(adjusted[1].RAZ, PI) /\ Lt(adjusted[1].RAZ, TwoPi)
  /\ Add(adjusted[1].RAZ, locals[1].RAZ) = TwoPi

\* ------------------------------------------------------------------------
\* C20
\* ------------------------------------------------------------------------
\* C20: for the observation rateOfSpreadExtended returned for, C6calc returns
\* the intermediate surface rate for "RSI", the crown rate for "RSC", the
\* crown fraction burned for "CFB" and for an omitted option, and the rate of
\* spread for "ROS"; the crown fraction burned is the CFB of
\* rateOfSpreadExtended and the rate of spread is its ROS before the floor.
C20_SelectsOfEngine ==
  pc = "c6" =>
    /\ c6.option = "RSI" => c6.out = RSI1
    /\ c6.option = "RSI" => c6.out = intermediateSurfaceRateOfSpreadC6(ISI1)
    /\ c6.option = "RSC" => c6.out = RSC1
    /\ c6.option = "RSC" => c6.out = crownRateOfSpreadC6(ISI1, params.FMC[1])
    /\ c6.option \in {"CFB", "undefined"} => c6.out = CFB1
    /\ c6.option = "ROS" =>
         /\ c6.out = rateOfSpreadC6(RSC1, RSS1, CFB1)
         /\ ROS1 = Constrain(c6.out)

\* the rate of spread of a fire that crowns in part, above the surface rate and
\* equal to the ROS of rateOfSpreadExtended
C20_CrownedRateOfSpread ==
  /\ pc = "c6" /\ c6.option = "ROS"
  /\ Gt(CFB1, Zero) /\ Lt(CFB1, N(1))
  /\ Gt(c6.out, RSS1) /\ Lt(c6.out, RSC1)
  /\ c6.out = ROS1

\* ------------------------------------------------------------------------
\* fireSeason(input, fsStart, fsEnd, method, consistentSnow, multiYear)
\* ------------------------------------------------------------------------
\* The arrays are 1-based here: day k of the source is element k + 1.

\* tmax.slice(from, to + 1).every(temp => temp > limit), and the like
EveryAbove(array, from, to, limit) == \A j \in from..to : array[j + 1] > limit
EveryBelow(array, from, to, limit) == \A j \in from..to : array[j + 1] < limit
EveryAtMost(array, from, to, limit) == \A j \in from..to : array[j + 1] <= limit

\* the day of a start record pushed at day kk: that of three days earlier on a
\* 4th of January, unless multiYear
theday(s, kk) ==
  IF ~s.multiYear /\ s.mon[kk + 1] = 1 /\ s.day[kk + 1] = 4
  THEN s.day[kk - 3 + 1]
  ELSE s.day[kk + 1]

StartRecord(s, kk) ==
  [yr |-> s.yr[kk + 1], mon |-> s.mon[kk + 1], day |-> theday(s, kk),
   fsdatetype |-> "start"]
EndRecord(s, kk) ==
  [yr |-> s.yr[kk + 1], mon |-> s.mon[kk + 1], day |-> s.day[kk + 1],
   fsdatetype |-> "end"]

\* the records one iteration of a scan pushes, given its two window tests: the
\* end test follows the start test and sees the flag the start test has set
PushedAt(s, kk, active, opening, closing) ==
  (IF ~active /\ opening THEN <<StartRecord(s, kk)>> ELSE <<>>)
  \o (IF (active \/ opening) /\ closing THEN <<EndRecord(s, kk)>> ELSE <<>>)
ActiveAfter(active, opening, closing) == (active \/ opening) /\ ~closing

\* the window tests of the two methods at day kk
OpeningWF93(s, kk) == EveryAbove(s.tmax, kk - 3, kk - 1, s.fsStart)
ClosingWF93(s, kk) == EveryBelow(s.tmax, kk - 3, kk - 1, s.fsEnd)
OpeningLA08(s, kk) == EveryAtMost(s.snow_depth, kk - 2, kk, 0)
ClosingLA08(s, kk) ==
  \/ s.snow_depth[kk + 1] > 0
  \/ s.mon[kk + 1] = 12 /\ EveryBelow(s.tmax, kk - 2, kk, s.fsEnd)

\* t.yr === value.yr && t.mon === value.mon && t.day === value.day
SameDay(t, value) == t.yr = value.yr /\ t.mon = value.mon /\ t.day = value.day

\* seasonStartEnd.filter(...): the records from the j-th on that no earlier
\* record of the list equals in yr, mon and day
RECURSIVE FirstOfDay(_, _)
FirstOfDay(list, j) ==
  IF j > Len(list) THEN <<>>
  ELSE (IF \E h \in 1..(j - 1) : SameDay(list[h], list[j]) THEN <<>> ELSE <<list[j]>>)
       \o FirstOfDay(list, j + 1)

\* record.date = new Date(`${record.yr}-${record.mon}-${record.day}`)
Dated(list) ==
  [j \in 1..Len(list) |->
     [yr |-> list[j].yr, mon |-> list[j].mon, day |-> list[j].day,
      fsdatetype |-> list[j].fsdatetype,
      date |-> <<list[j].yr, list[j].mon, list[j].day>>]]

\* bound of the number of days of an input
MaxDays == 10

\* n consecutive days from the d0-th of December 2000 on
Calendar(d0, n) ==
  [j \in 1..n |-> IF d0 + j - 1 <= 31
                  THEN [yr |-> 2000, mon |-> 12, day |-> d0 + j - 1]
                  ELSE [yr |-> 2001, mon |-> 1, day |-> d0 + j - 1 - 31]]
FirstDays == {1, 26}
TmaxValues == {0, 20}
SnowValues == {0, 1}
\* fsStart and fsEnd: the defaults, and a pair with fsStart below fsEnd
ThresholdValues == {<<12, 5>>, <<5, 25>>}

SeasonOf(dates, tmax, snow, limits, method, consistentSnow, multiYear) ==
  [yr |-> [j \in DOMAIN dates |-> dates[j].yr],
   mon |-> [j \in DOMAIN dates |-> dates[j].mon],
   day |-> [j \in DOMAIN dates |-> dates[j].day],
   tmax |-> tmax, snow_depth |-> snow, fsStart |-> limits[1], fsEnd |-> limits[2],
   method |-> method, consistentSnow |-> consistentSnow, multiYear |-> multiYear]

InitSeason ==
  /\ pc = "season"
  /\ \E n \in 0..MaxDays, d0 \in FirstDays, multiYear \in BOOLEAN :
       \/ \E tmax \in [1..n -> TmaxValues], limits \in ThresholdValues :
            season = SeasonOf(Calendar(d0, n), tmax, <<>>, limits, "wf93", FALSE,
                              multiYear)
       \/ \E snow \in [1..n -> SnowValues] \cup {<<>>}, t \in TmaxValues :
            season = SeasonOf(Calendar(d0, n), [j \in 1..n |-> t], snow, <<12, 5>>,
                              "la08", TRUE, multiYear)
       \/ /\ n = MaxDays /\ d0 = 26 /\ ~multiYear
          /\ \E tmax \in [1..n -> TmaxValues] :
               season = SeasonOf(Calendar(d0, n), tmax, <<>>, <<12, 5>>, "la08",
                                 FALSE, multiYear)
  /\ dayIndex = 3
  /\ seasonActive = FALSE
  /\ seasonStartEnd = <<>>
  /\ NoSpread
  /\ NoBatch
  /\ NoArgs

n0 == Len(season.tmax)

\* one iteration of the loop of method "wf93"
ScanWF93 ==
  /\ pc = "season"
  /\ season.method = "wf93"
  /\ dayIndex < n0
  /\ seasonStartEnd' = seasonStartEnd \o
       PushedAt(season, dayIndex, seasonActive, OpeningWF93(season, dayIndex),
                ClosingWF93(season, dayIndex))
  /\ seasonActive' = ActiveAfter(seasonActive, OpeningWF93(season, dayIndex),
                                 ClosingWF93(season, dayIndex))
  /\ dayIndex' = dayIndex + 1
  /\ UNCHANGED <<pc, season, spreadVars, batchVars, callVars>>

\* one iteration of the loop of method "la08" with consistentSnow
ScanLA08 ==
  /\ pc = "season"
  /\ season.method = "la08"
  /\ season.consistentSnow
  /\ Len(season.snow_depth) > 0
  /\ dayIndex < n0
  /\ seasonStartEnd' = seasonStartEnd \o
       PushedAt(season, dayIndex, seasonActive, OpeningLA08(season, dayIndex),
                ClosingLA08(season, dayIndex))
  /\ seasonActive' = ActiveAfter(seasonActive, OpeningLA08(season, dayIndex),
                                 ClosingLA08(season, dayIndex))
  /\ dayIndex' = dayIndex + 1
  /\ UNCHANGED <<pc, season, spreadVars, batchVars, callVars>>

\* method "la08" with consistentSnow and no snow_depth throws
ThrowNoSnow ==
  /\ pc = "season"
  /\ season.method = "la08"
  /\ season.consistentSnow
  /\ Len(season.snow_depth) = 0
  /\ pc' = "seasonThrown"
  /\ UNCHANGED <<seasonVars, spreadVars, batchVars, callVars>>

\* method "la08" without consistentSnow: return fireSeason(.., "WF93", ..)
FallBackToWF93 ==
  /\ pc = "season"
  /\ season.method = "la08"
  /\ ~season.consistentSnow
  /\ season' = [season EXCEPT !.method = "wf93"]
  /\ UNCHANGED <<pc, dayIndex, seasonActive, seasonStartEnd, spreadVars, batchVars,
                 callVars>>

\* after the loop: the duplicate days are filtered, the dates are set and the
\* list is returned
ReturnSeason ==
  /\ pc = "season"
  /\ season.method = "wf93" \/ Len(season.snow_depth) > 0
  /\ season.method = "wf93" \/ season.consistentSnow
  /\ dayIndex >= n0
  /\ seasonStartEnd' = Dated(FirstOfDay(seasonStartEnd, 1))
  /\ pc' = "seasonReturned"
  /\ UNCHANGED <<season, dayIndex, seasonActive, spreadVars, batchVars, callVars>>

NextSeason ==
  \/ ScanWF93
  \/ ScanLA08
  \/ ThrowNoSnow
  \/ FallBackToWF93
  \/ ReturnSeason

SpecSeason == InitSeason /\ [][NextSeason]_vars

\* the types of the records of a list, in order
Types(list) == [j \in 1..Len(list) |-> list[j].fsdatetype]

\* the records the scan of C21 produces from day kk on: a start when no season
\* is active and the three days before are all above fsStart, an end when a
\* season is active and they are all below fsEnd
RECURSIVE ScanTypes(_, _, _)
ScanTypes(s, kk, active) ==
  IF kk >= Len(s.tmax) THEN <<>>
  ELSE (IF ~active /\ OpeningWF93(s, kk) THEN <<"start">> ELSE <<>>)
       \o (IF (active \/ OpeningWF93(s, kk)) /\ ClosingWF93(s, kk)
           THEN <<"end">> ELSE <<>>)
       \o ScanTypes(s, kk + 1,
                    ActiveAfter(active, OpeningWF93(s, kk), ClosingWF93(s, kk)))

\* ------------------------------------------------------------------------
\* C21
\* ------------------------------------------------------------------------
\* C21: with method WF93 the list returned holds, in the order of the days, a
\* start record for each day k >= 3 at which no season is active and the three
\* days before are all above fsStart, an end record for each day at which a
\* season is active and they are all below fsEnd, and no other record; an input
\* of fewer than four days gives no record.
C21_RecordsOfScan ==
  (pc = "seasonReturned" /\ season.method = "wf93")
    => Types(seasonStartEnd) = ScanTypes(season, 3, FALSE)

\* ------------------------------------------------------------------------
\* C28
\* ------------------------------------------------------------------------
\* C28: the list returned by fireSeason alternates "start", "end", "start", ..
\* beginning with "start", for both methods and every pair of thresholds.
C28_Alternates ==
  pc = "seasonReturned"
    => \A j \in 1..Len(seasonStartEnd) :
         seasonStartEnd[j].fsdatetype = (IF j % 2 = 1 THEN "start" ELSE "end")

\* ------------------------------------------------------------------------
\* The iterative calculations: fwi, gfmc and sdmc
\* ------------------------------------------------------------------------
\* The arrays are 1-based here: row j of the source is element j + 1.

\* an array element that is not there, as a value among the numbers
Undefined == [k |-> "undefined", m |-> 0, e |-> 0]
\* the id of a row that has none
NoId == 0

\* array.sort(compare) for a comparison by a numeric key, on pairs <<key, row>>:
\* the order of the keys, rows of equal key in their order of before
RECURSIVE InsertKeyed(_, _)
InsertKeyed(pair, sorted) ==
  IF sorted = <<>> THEN <<pair>>
  ELSE IF pair[1] < Head(sorted)[1] THEN <<pair>> \o sorted
  ELSE <<Head(sorted)>> \o InsertKeyed(pair, Tail(sorted))
RECURSIVE SortKeyed(_)
SortKeyed(pairs) ==
  IF pairs = <<>> THEN <<>>
  ELSE InsertKeyed(pairs[Len(pairs)], SortKeyed(SubSeq(pairs, 1, Len(pairs) - 1)))
Rows(pairs) == [j \in 1..Len(pairs) |-> pairs[j][2]]

\* new Set(rows.map(entry => entry.id)).size
Ids(rows) == {rows[j].id : j \in 1..Len(rows)}
SomeId(rows) == \E j \in 1..Len(rows) : rows[j].id # NoId

\* Math.random() * 100 of the placeholders: the draw-th value of the sequence
\* that starts at seed
Random(seed, draw) == (seed + 37 * draw) % 100

\* k = [...Array(n).keys()].map(j => j + (i * n)), as indices from 1
Block(n, ii) == [j \in 1..n |-> j + ii * n]

\* ------------------------------------------------------------------------
\* fwi(input, init, batch, out, latAdjust, uppercase)
\* ------------------------------------------------------------------------
\* (a.yr - b.yr) || (a.mon - b.mon) || (a.day - b.day) || (a.id > b.id ? 1 : -1)
FwiKey(row) == ((row.yr * 13 + row.mon) * 32 + row.day) * 10 + row.id
FwiSorted(rows, batch) ==
  IF batch /\ SomeId(rows)
  THEN Rows(SortKeyed([j \in 1..Len(rows) |-> <<FwiKey(rows[j]), rows[j]>>]))
  ELSE rows

\* n = batch ? (new Set(input.map(entry => entry.id))).size : 1
FwiStations(rows, batch) == IF batch THEN Cardinality(Ids(rows)) ELSE 1

\* rh[j] = rh[j] >= 100 ? 99.9999 : rh[j]
FwiRh(rh) == IF Ge(rh, N(100)) THEN F(999999, -4) ELSE rh

\* the arguments of fineFuelMoistureCode, duffMoistureCode and droughtCode for
\* row j: the codes carried over, and the weather of the row; lat and mon were
\* read before the rows were sorted
FwiPassed(in, carried, j) ==
  [ffmc_yda |-> carried.ffmc, dmc_yda |-> carried.dmc, dc_yda |-> carried.dc,
   id |-> in.sorted[j].id, day |-> in.sorted[j].day, rh |-> FwiRh(in.sorted[j].rh),
   lat |-> in.init.lat, mon |-> in.rows[j].mon]

\* fwi1.map(value => 0.0272 * Math.pow(value, 1.77))
DSR(fwi) == Mul(F(272, -4), Pow(fwi, F(177, -2)))

\* the codes and indices of row j, the c-th row computed in its block of n: the
\* six placeholders return random numbers
FwiRow(in, n, ii, c) ==
  [ffmc |-> N(Random(in.seed, 6 * n * ii + c)),
   dmc |-> N(Random(in.seed, 6 * n * ii + n + c)),
   dc |-> N(Random(in.seed, 6 * n * ii + 2 * n + c)),
   isi |-> N(Random(in.seed, 6 * n * ii + 3 * n + c)),
   bui |-> N(Random(in.seed, 6 * n * ii + 4 * n + c)),
   fwi |-> N(Random(in.seed, 6 * n * ii + 5 * n + c)),
   dsr |-> DSR(N(Random(in.seed, 6 * n * ii + 5 * n + c)))]

\* newFWI: the rows of the input with the outputs, the keys in upper case
FwiReturned(in, codes) ==
  [j \in 1..Len(codes) |->
     [ID |-> in.sorted[j].id, DAY |-> in.sorted[j].day, FFMC |-> codes[j].ffmc,
      DMC |-> codes[j].dmc, DC |-> codes[j].dc, ISI |-> codes[j].isi,
      BUI |-> codes[j].bui, FWI |-> codes[j].fwi, DSR |-> codes[j].dsr]]

\* bounds of the inputs of the iterative calculations
MaxStations == 2
MaxSteps == 3

Seeds == {7, 60}
DefaultInit == [ffmc |-> N(85), dmc |-> N(6), dc |-> N(15), lat |-> N(55)]

\* the rows of stations 1..S (or of one station without id) on T days of July
\* 2000, by day then id, or by id then day
DailyRows(S, T, withId, byDay) ==
  [j \in 1..(S * T) |->
     [id |-> IF withId THEN (IF byDay THEN (j - 1) % S ELSE (j - 1) \div T) + 1
             ELSE NoId,
      yr |-> 2000, mon |-> 7,
      day |-> (IF byDay THEN (j - 1) \div S ELSE (j - 1) % T) + 1,
      rh |-> IF j = 1 THEN N(100) ELSE N(40)]]

InitFwi ==
  /\ pc = "fwi"
  /\ \E S \in 1..MaxStations, T \in 1..MaxSteps, withId \in BOOLEAN,
        byDay \in BOOLEAN, batch \in BOOLEAN, seed \in Seeds :
       /\ withId \/ S = 1
       /\ byDay \/ (withId /\ S > 1 /\ T > 1)
       /\ input = [rows |-> DailyRows(S, T, withId, byDay), sorted |-> <<>>,
                   init |-> DefaultInit, batch |-> batch, seed |-> seed, n |-> 0]
  /\ step = 0
  /\ old = <<>>
  /\ passed = <<>>
  /\ output = <<>>

\* the statements before the loop: the rows are sorted, n is set and the codes
\* carried over start as init
EnterFwi ==
  /\ pc = "fwi"
  /\ input' = [input EXCEPT !.sorted = FwiSorted(input.rows, input.batch),
                            !.n = FwiStations(input.rows, input.batch)]
  /\ old' = [ffmc |-> input.init.ffmc, dmc |-> input.init.dmc, dc |-> input.init.dc]
  /\ pc' = "fwiLoop"
  /\ UNCHANGED <<step, passed, output, seasonVars, spreadVars, callVars>>

\* one iteration of the loop: the n rows of time step i, then the carry-over
\* of the codes of the last of them
StepFwi ==
  /\ pc = "fwiLoop"
  /\ step * input.n < Len(input.sorted)
  /\ passed' = passed \o [c \in 1..input.n |->
                            FwiPassed(input, old, Block(input.n, step)[c])]
  /\ output' = output \o [c \in 1..input.n |-> FwiRow(input, input.n, step, c)]
  /\ old' = [ffmc |-> output'[Len(output')].ffmc, dmc |-> output'[Len(output')].dmc,
             dc |-> output'[Len(output')].dc]
  /\ step' = step + 1
  /\ UNCHANGED <<pc, input, seasonVars, spreadVars, callVars>>

\* after the loop: newFWI is built and returned
ReturnFwi ==
  /\ pc = "fwiLoop"
  /\ step * input.n >= Len(input.sorted)
  /\ output' = FwiReturned(input, output)
  /\ pc' = "fwiReturned"
  /\ UNCHANGED <<input, step, old, passed, seasonVars, spreadVars, callVars>>

\* ------------------------------------------------------------------------
\* gfmc(input, GFMCold, batch, timeStep, roFL, out)
\* ------------------------------------------------------------------------
\* array[index] of the source, for index from 0: undefined beyond the end
At(array, index) == IF index + 1 \in DOMAIN array THEN array[index + 1] ELSE Undefined

\* n: the number of different ids with batch and an id column, 1 with batch and
\* none, the number of rows without batch
GfmcStations(in) ==
  IF in.batch
  THEN (IF in.hasId THEN Cardinality({in.id[j] : j \in 1..Len(in.id)}) ELSE 1)
  ELSE Len(in.temp)

\* if (typeof GFMCold === "number") GFMCold = Array(n).fill(GFMCold)
GfmcFilled(in) ==
  IF in.isNumber THEN [j \in 1..GfmcStations(in) |-> in.GFMCold[1]] ELSE in.GFMCold

\* if (n !== input.id.length) throw ..; if (GFMCold.length !== n) throw ..
GfmcThrows(in) ==
  \/ in.batch /\ in.hasId /\ GfmcStations(in) # Len(in.id)
  \/ Len(GfmcFilled(in)) # GfmcStations(in)

\* grassFuelMoistureCode(MC)
grassFuelMoistureCode(MC) == Sub(N(101), MC)

\* the arguments of grassFuelMoisture for row index of the input: the weather
\* of that row and GFMCold at that same index
GfmcPassed(in, carried, index) ==
  [temp |-> At(in.temp, index), GFMCold |-> At(carried, index),
   timeStep |-> N(1), roFL |-> F(3, -1)]

\* the placeholder grassFuelMoisture returns a random number
MCStep(in, ii) == [c \in 1..in.n |-> N(Random(in.seed, in.n * ii + c))]
GFMCStep(mc) == [c \in 1..Len(mc) |-> grassFuelMoistureCode(mc[c])]

\* the weather of S stations over T time steps, by time then station
HourlyRows(S, T) ==
  [temp |-> [j \in 1..(S * T) |-> N(15 + j)],
   id |-> [j \in 1..(S * T) |-> ((j - 1) % S) + 1]]

\* GFMCold as one number (kept as an array of one), or as an array for S stations
GFMColdValues(S) ==
  {[isNumber |-> TRUE, GFMCold |-> <<N(85)>>],
   [isNumber |-> FALSE, GFMCold |-> [j \in 1..S |-> N(80 + j)]],
   [isNumber |-> FALSE, GFMCold |-> <<N(81), N(82), N(83)>>]}

InitGfmc ==
  /\ pc = "gfmc"
  /\ \E S \in 1..MaxStations, T \in 1..MaxSteps, withId \in BOOLEAN,
        batch \in BOOLEAN, seed \in Seeds :
       /\ withId \/ S = 1
       /\ \E given \in GFMColdValues(S) :
            input = [temp |-> HourlyRows(S, T).temp, id |-> HourlyRows(S, T).id,
                     hasId |-> withId, GFMCold |-> given.GFMCold,
                     isNumber |-> given.isNumber, batch |-> batch, seed |-> seed,
                     n |-> 0]
  /\ step = 0
  /\ old = <<>>
  /\ passed = <<>>
  /\ output = <<>>

\* the statements before the loop: n is set, the two checks are made and
\* GFMCold is made an array
EnterGfmc ==
  /\ pc = "gfmc"
  /\ input' = [input EXCEPT !.n = GfmcStations(input)]
  /\ IF GfmcThrows(input)
     THEN pc' = "gfmcThrown" /\ old' = old
     ELSE pc' = "gfmcLoop" /\ old' = GfmcFilled(input)
  /\ UNCHANGED <<step, passed, output, seasonVars, spreadVars, callVars>>

\* one iteration of the loop: the n rows of time step i, then GFMCold = GFMCStep
StepGfmc ==
  /\ pc = "gfmcLoop"
  /\ step < Len(input.temp) \div input.n
  /\ passed' = passed \o [c \in 1..input.n |->
                            GfmcPassed(input, old, input.n * step + c - 1)]
  /\ output' = output \o [c \in 1..input.n |->
                            [GFMC |-> GFMCStep(MCStep(input, step))[c],
                             MC |-> MCStep(input, step)[c]]]
  /\ old' = GFMCStep(MCStep(input, step))
  /\ step' = step + 1
  /\ UNCHANGED <<pc, input, seasonVars, spreadVars, callVars>>

\* after the loop: { GFMC: GFMC_out, MC: MC_out } is returned
ReturnGfmc ==
  /\ pc = "gfmcLoop"
  /\ step >= Len(input.temp) \div input.n
  /\ pc' = "gfmcReturned"
  /\ UNCHANGED <<input, step, old, passed, output, seasonVars, spreadVars, callVars>>

\* ------------------------------------------------------------------------
\* sdmc(input, sdmc_old, batch)
\* ------------------------------------------------------------------------
\* Math.max and Math.min: NaN when an argument is NaN
MathMax(x, y) == IF IsNaN(x) \/ IsNaN(y) THEN NaN ELSE IF Gt(y, x) THEN y ELSE x
MathMin(x, y) == IF IsNaN(x) \/ IsNaN(y) THEN NaN ELSE IF Lt(y, x) THEN y ELSE x

\* an undefined operand of an arithmetic operation is NaN
ToNumber(x) == IF x = Undefined THEN NaN ELSE x

\* (a.mon - b.mon) || (a.day - b.day), then with || (a.id - b.id)
SdmcSorted(rows, batch) ==
  IF batch /\ SomeId(rows)
  THEN Rows(SortKeyed([j \in 1..Len(rows) |->
                         <<(rows[j].mon * 32 + rows[j].day) * 10 + rows[j].id,
                           rows[j]>>]))
  ELSE Rows(SortKeyed([j \in 1..Len(rows) |->
                         <<rows[j].mon * 32 + rows[j].day, rows[j]>>]))

\* n: the number of different ids with batch and an id column, else the number
\* of rows
SdmcStations(rows, batch) ==
  IF batch /\ SomeId(rows) THEN Cardinality(Ids(rows)) ELSE Len(rows)

\* the effective day lengths of the twelve months
el ==
  <<F(65, -1), F(75, -1), N(9), F(128, -1), F(139, -1), F(139, -1), F(124, -1),
    F(109, -1), F(94, -1), N(8), N(7), N(6)>>

\* Math.max(2.6 + (1.7 * dmc[idx]) - 6.0, 12)
InitialSdmc(dmc) == MathMax(Sub(Add(F(26, -1), Mul(F(17, -1), dmc)), N(6)), N(12))

\* sdmc_old of the loop for the block of row indices from first on: the initial
\* values of these rows when it is null; a number has no elements
SdmcOld(in, carried, first) ==
  IF carried.kind = "null"
  THEN [c \in 1..in.n |-> InitialSdmc(ToNumber(At(in.dmc, first + c - 1)))]
  ELSE IF carried.kind = "number" THEN <<>>
  ELSE carried.value

rk(temp, rh, mon) ==
  Mul(Mul(Mul(Mul(Mul(Div(F(491, -2), F(357, -2)), F(1894, -3)),
                  Add(MathMax(temp, F(-11, -1)), F(11, -1))),
              Sub(N(100), MathMin(MathMax(rh, Zero), F(999, -1)))),
          el[mon]),
      F(1, -4))
rw(prec) ==
  IF Lt(prec, F(769, -2))
  THEN Sub(Mul(F(218, -3), prec), F(94, -3))
  ELSE Sub(Mul(F(83, -2), prec), F(48, -1))
wmi(sdmc_old) == Add(N(20), Div(N(280), Exp(Mul(F(23, -3), sdmc_old))))
SdmcSlope(sdmc_old) ==
  IF Gt(sdmc_old, N(65)) THEN Sub(Mul(F(62, -1), Ln(sdmc_old)), F(172, -1))
  ELSE IF Le(sdmc_old, N(33))
  THEN Div(N(100), Add(F(5, -1), Mul(F(3, -1), sdmc_old)))
  ELSE Sub(N(14), Mul(F(13, -1), Ln(sdmc_old)))
wmr(sdmc_old, prec) ==
  Add(wmi(sdmc_old),
      Div(Mul(N(1000), rw(prec)), Add(F(4877, -2), Mul(SdmcSlope(sdmc_old), rw(prec)))))
pr(sdmc_old, prec) ==
  IF Le(prec, F(44, -2)) THEN sdmc_old
  ELSE Mul(F(4343, -2), Sub(F(56348, -4), Ln(Sub(wmr(sdmc_old, prec), N(20)))))

\* SDMC0 of one row from the sdmc_old of its position
SDMC0(row, sdmc_old) ==
  MathMax(Add(MathMax(pr(ToNumber(sdmc_old), MathMax(row.prec, Zero)), Zero),
              rk(row.temp, row.rh, row.mon)),
          Zero)

\* the rows of stations 1..S (or of one station without id) on T days of July,
\* by day then id: a day of rain after a dry day, and a drier duff on the 2nd
DuffRows(S, T, withId) ==
  [j \in 1..(S * T) |->
     [id |-> IF withId THEN ((j - 1) % S) + 1 ELSE NoId,
      mon |-> 7, day |-> ((j - 1) \div S) + 1, temp |-> N(20), rh |-> N(40),
      ws |-> N(10), prec |-> IF (j - 1) \div S = 1 THEN N(5) ELSE Zero,
      dmc |-> N(20 + 10 * ((j - 1) \div S) + ((j - 1) % S))]]

SdmcOldValues(S) ==
  {[kind |-> "null", value |-> <<>>], [kind |-> "number", value |-> <<N(30)>>],
   [kind |-> "array", value |-> [j \in 1..S |-> N(30 * j)]]}

InitSdmc ==
  /\ pc = "sdmc"
  /\ \E S \in 1..MaxStations, T \in 1..MaxSteps, withId \in BOOLEAN,
        batch \in BOOLEAN, reversed \in BOOLEAN :
       /\ withId \/ S = 1
       /\ \E given \in SdmcOldValues(S) :
            input = [rows |-> IF reversed
                              THEN [j \in 1..(S * T) |->
                                      DuffRows(S, T, withId)[S * T + 1 - j]]
                              ELSE DuffRows(S, T, withId),
                     sorted |-> <<>>, dmc |-> <<>>, sdmc_old |-> given,
                     batch |-> batch, n |-> 0]
  /\ step = 0
  /\ old = <<>>
  /\ passed = <<>>
  /\ output = <<>>

\* the statements before the loop: the rows are sorted and n is set
EnterSdmc ==
  /\ pc = "sdmc"
  /\ input' = [input EXCEPT
                 !.sorted = SdmcSorted(input.rows, input.batch),
                 !.dmc = [j \in 1..Len(input.rows) |->
                            SdmcSorted(input.rows, input.batch)[j].dmc],
                 !.n = SdmcStations(input.rows, input.batch)]
  /\ old' = input.sdmc_old
  /\ pc' = "sdmcLoop"
  /\ UNCHANGED <<step, passed, output, seasonVars, spreadVars, callVars>>

\* one iteration of the loop: the n rows of block i, then sdmc_old = SDMC0
StepSdmc ==
  /\ pc = "sdmcLoop"
  /\ step < Len(input.sorted) \div input.n
  /\ passed' = passed \o [c \in 1..input.n |->
                            At(SdmcOld(input, old, input.n * step), c - 1)]
  /\ output' = output \o [c \in 1..input.n |->
                            SDMC0(input.sorted[input.n * step + c], passed'[input.n * step + c])]
  /\ old' = [kind |-> "array",
             value |-> SubSeq(output', input.n * step + 1, input.n * step + input.n)]
  /\ step' = step + 1
  /\ UNCHANGED <<pc, input, seasonVars, spreadVars, callVars>>

\* after the loop: SDMC is returned
ReturnSdmc ==
  /\ pc = "sdmcLoop"
  /\ input.n = 0 \/ step >= Len(input.sorted) \div input.n
  /\ pc' = "sdmcReturned"
  /\ UNCHANGED <<input, step, old, passed, output, seasonVars, spreadVars, callVars>>

InitBatch ==
  /\ InitFwi \/ InitGfmc \/ InitSdmc
  /\ NoSeason
  /\ NoSpread
  /\ NoArgs

NextBatch ==
  \/ EnterFwi
  \/ StepFwi
  \/ ReturnFwi
  \/ EnterGfmc
  \/ StepGfmc
  \/ ReturnGfmc
  \/ EnterSdmc
  \/ StepSdmc
  \/ ReturnSdmc

SpecBatch == InitBatch /\ [][NextBatch]_vars

\* the number of stations of the rows of a call: that of the different ids, or
\* one station when the rows have no id
StationsOf(rows) == IF SomeId(rows) THEN Cardinality(Ids(rows)) ELSE 1

\* ------------------------------------------------------------------------
\* C22
\* ------------------------------------------------------------------------
\* C22: in fwi with batch = true and rows sorted by date then id, the codes
\* passed for a row as those of the day before are the FFMC, DMC and DC returned
\* for the same station one day earlier, and the init values on the first day.
C22_OwnPreviousDay ==
  (pc = "fwiReturned" /\ input.batch /\ input.rows = input.sorted)
    => \A r \in 1..Len(output) :
         /\ passed[r].ffmc_yda = IF r <= StationsOf(input.rows) THEN input.init.ffmc
                                 ELSE output[r - StationsOf(input.rows)].FFMC
         /\ passed[r].dmc_yda = IF r <= StationsOf(input.rows) THEN input.init.dmc
                                ELSE output[r - StationsOf(input.rows)].DMC
         /\ passed[r].dc_yda = IF r <= StationsOf(input.rows) THEN input.init.dc
                               ELSE output[r - StationsOf(input.rows)].DC

\* ------------------------------------------------------------------------
\* C23
\* ------------------------------------------------------------------------
\* C23: in fwi with batch = false the codes passed for every row as those of
\* the day before are the init values of the call.
C23_EachRowFromInit ==
  (pc = "fwiReturned" /\ ~input.batch)
    => \A r \in 1..Len(output) :
         /\ passed[r].ffmc_yda = input.init.ffmc
         /\ passed[r].dmc_yda = input.init.dmc
         /\ passed[r].dc_yda = input.init.dc

\* ------------------------------------------------------------------------
\* C24
\* ------------------------------------------------------------------------
\* C24: gfmc with batch = true, for one station without id or S stations with
\* ids over T time steps and a GFMCold for each station, returns S * T values,
\* and the GFMCold passed for a station is the GFMC returned for it one step
\* earlier, the supplied GFMCold at the first step.
C24_OwnPreviousStep ==
  (/\ pc \in {"gfmcLoop", "gfmcThrown", "gfmcReturned"}
   /\ input.batch
   /\ input.isNumber \/ Len(input.GFMCold) = Cardinality({input.id[j] : j \in 1..Len(input.id)}))
    => /\ pc # "gfmcThrown"
       /\ pc = "gfmcReturned" => Len(output) = Len(input.temp)
       /\ \A r \in 1..Len(output) :
            passed[r].GFMCold =
              IF r > input.n THEN output[r - input.n].GFMC
              ELSE IF input.isNumber THEN input.GFMCold[1] ELSE input.GFMCold[r]

\* ------------------------------------------------------------------------
\* C25
\* ------------------------------------------------------------------------
\* the SDMC the first day of the station of row r starts from: the supplied
\* sdmc_old, or the value initialised from the DMC of that day
FirstSdmcOld(r) ==
  IF input.sdmc_old.kind = "null" THEN InitialSdmc(input.sorted[r].dmc)
  ELSE IF input.sdmc_old.kind = "number" THEN input.sdmc_old.value[1]
  ELSE input.sdmc_old.value[r]

\* C25: in sdmc with batch = true, for one station without id and for several
\* with ids, the SDMC of a day is computed from the SDMC returned for the same
\* station one day earlier, and the first day from sdmc_old or from the value
\* initialised from its DMC.
C25_OwnPreviousDay ==
  (pc = "sdmcReturned" /\ input.batch /\ input.rows = input.sorted)
    => \A r \in 1..Len(output) :
         output[r] = SDMC0(input.sorted[r],
                           IF r <= StationsOf(input.rows) THEN FirstSdmcOld(r)
                           ELSE output[r - StationsOf(input.rows)])

\* ------------------------------------------------------------------------
\* crownBaseHeight(FUELTYPE, CBH, SD, SH)
\* ------------------------------------------------------------------------
\* the default crown base heights of the fuel types
CBHs ==
  [C1 |-> N(2), C2 |-> N(3), C3 |-> N(8), C4 |-> N(4), C5 |-> N(18), C6 |-> N(7),
   C7 |-> N(10), D1 |-> Zero, M1 |-> N(6), M2 |-> N(6), M3 |-> N(6), M4 |-> N(6),
   S1 |-> Zero, S2 |-> Zero, S3 |-> Zero, O1A |-> Zero, O1B |-> Zero]

\* the crown base height after the adjustment of invalid values
AdjustedCBH(FUELTYPE, CBH, SD, SH) ==
  IF Le(CBH, Zero) \/ Gt(CBH, N(50)) \/ IsNaN(CBH)
  THEN IF FUELTYPE = "C6" /\ Gt(SD, Zero) /\ Gt(SH, Zero)
       THEN Add(Add(F(-112, -1), Mul(F(106, -2), SH)), Mul(F(17, -4), SD))
       ELSE IF FUELTYPE \in DOMAIN CBHs THEN CBHs[FUELTYPE] ELSE CBH
  ELSE CBH

\* CBH = CBH < 0 ? 1e-07 : CBH
FlooredCBH(CBH) == IF Lt(CBH, Zero) THEN F(1, -7) ELSE CBH

crownBaseHeight(FUELTYPE, CBH, SD, SH) == FlooredCBH(AdjustedCBH(FUELTYPE, CBH, SD, SH))

\* ------------------------------------------------------------------------
\* surfaceFuelConsumption(FUELTYPE, FFMC, BUI, PC, GFL)
\* ------------------------------------------------------------------------
\* 1 - Math.exp(rate * x), for the negative rates of the equations
Consumed(rate, x) == Sub(N(1), Exp(Mul(rate, x)))

\* SFC[i] of the switch statement
SFCOf(FUELTYPE, FFMC, BUI, PC, GFL) ==
  CASE FUELTYPE = "C1" ->
         IF Gt(FFMC, N(84))
         THEN Add(F(75, -2), Mul(F(75, -2), Sqrt(Consumed(F(-23, -2), Sub(FFMC, N(84))))))
         ELSE Sub(F(75, -2), Mul(F(75, -2), Sqrt(Consumed(F(-23, -2), Sub(N(84), FFMC)))))
    [] FUELTYPE \in {"C2", "M3", "M4"} -> Mul(N(5), Consumed(F(-115, -4), BUI))
    [] FUELTYPE \in {"C3", "C4"} ->
         Pow(Mul(N(5), Consumed(F(-164, -4), BUI)), F(224, -2))
    [] FUELTYPE \in {"C5", "C6"} ->
         Pow(Mul(N(5), Consumed(F(-149, -4), BUI)), F(248, -2))
    [] FUELTYPE = "C7" ->
         Add(IF Gt(FFMC, N(70))
             THEN Mul(N(2), Consumed(F(-104, -3), Sub(FFMC, N(70))))
             ELSE Zero,
             Mul(F(15, -1), Consumed(F(-201, -4), BUI)))
    [] FUELTYPE = "D1" -> Mul(F(15, -1), Consumed(F(-183, -4), BUI))
    [] FUELTYPE \in {"M1", "M2"} ->
         Add(Mul(Mul(Div(PC, N(100)), N(5)), Consumed(F(-115, -4), BUI)),
             Mul(Mul(Div(Sub(N(100), PC), N(100)), F(15, -1)),
                 Consumed(F(-183, -4), BUI)))
    [] FUELTYPE \in {"O1A", "O1B"} -> GFL
    [] FUELTYPE = "S1" ->
         Add(Mul(N(4), Consumed(F(-25, -3), BUI)), Mul(N(4), Consumed(F(-34, -3), BUI)))
    [] FUELTYPE = "S2" ->
         Add(Mul(N(10), Consumed(F(-13, -3), BUI)), Mul(N(6), Consumed(F(-6, -2), BUI)))
    [] FUELTYPE = "S3" ->
         Add(Mul(N(12), Consumed(F(-166, -4), BUI)), Mul(N(20), Consumed(F(-21, -3), BUI)))
    [] OTHER -> N(-999)

\* SFC.map(value => Math.max(value, 0.000001))
surfaceFuelConsumption(FUELTYPE, FFMC, BUI, PC, GFL) ==
  [j \in 1..Len(FFMC) |->
     MathMax(SFCOf(FUELTYPE[j], FFMC[j], BUI[j], PC[j], GFL[j]), F(1, -6))]

\* ------------------------------------------------------------------------
\* backRateOfSpread(FUELTYPE, FFMC, BUI, WSV, FMC, SFC, PC, PDF, CC, CBH)
\* ------------------------------------------------------------------------
\* m = FFMC_COEFFICIENT * (101 - FFMC[0]) / (59.5 + FFMC[0])
BackM(FFMC) == Div(Mul(N(1), Sub(N(101), FFMC)), Add(F(595, -1), FFMC))
\* BfW = Math.exp(-0.05039 * WSV[0])
BfW(wsv) == Exp(Mul(F(-5039, -5), wsv))
\* 0.208 * BfW * fF
BISI(FFMC, wsv) == Mul(Mul(F(208, -3), BfW(wsv)), fF(BackM(FFMC)))

backRateOfSpread(o) ==
  rateOfSpread([FUELTYPE |-> o.FUELTYPE, ISI |-> <<BISI(o.FFMC[1], o.WSV[1])>>,
                BUI |-> o.BUI, FMC |-> o.FMC, SFC |-> o.SFC, PC |-> o.PC,
                PDF |-> o.PDF, CC |-> o.CC, CBH |-> o.CBH])

\* ------------------------------------------------------------------------
\* direction(bearingT1T2, bearingT1T3, ThetaAdeg)
\* ------------------------------------------------------------------------
\* DIR[i] of the chain of if statements; NaN when none applies
Turned(T1T2, T1T3, ThetaAdeg) ==
  IF Gt(T1T2, Zero) /\ Gt(T1T3, Zero) /\ Gt(T1T2, T1T3) THEN Sub(T1T2, ThetaAdeg)
  ELSE IF Gt(T1T2, Zero) /\ Gt(T1T3, Zero) /\ Lt(T1T2, T1T3) THEN Add(T1T2, ThetaAdeg)
  ELSE IF Lt(T1T2, Zero) /\ Lt(T1T3, Zero) /\ Gt(T1T2, T1T3) THEN Sub(T1T2, ThetaAdeg)
  ELSE IF Lt(T1T2, Zero) /\ Lt(T1T3, Zero) /\ Lt(T1T2, T1T3) THEN Add(T1T2, ThetaAdeg)
  ELSE IF Gt(T1T2, Zero) /\ Lt(T1T2, N(90)) /\ Lt(T1T3, Zero) /\ Gt(T1T3, N(-90))
  THEN Sub(T1T2, ThetaAdeg)
  ELSE IF Lt(T1T2, Zero) /\ Gt(T1T2, N(-90)) /\ Gt(T1T3, Zero) /\ Lt(T1T3, N(90))
  THEN Add(T1T2, ThetaAdeg)
  ELSE IF Gt(T1T2, N(90)) /\ Lt(T1T3, N(-90)) /\ Gt(Add(T1T2, ThetaAdeg), N(180))
  THEN Sub(Add(T1T2, ThetaAdeg), N(360))
  ELSE IF Gt(T1T2, N(90)) /\ Lt(T1T3, N(-90)) /\ Lt(Add(T1T2, ThetaAdeg), N(180))
  THEN Add(T1T2, ThetaAdeg)
  ELSE IF Lt(T1T2, N(-90)) /\ Gt(T1T3, N(90)) /\ Lt(Sub(T1T2, ThetaAdeg), N(-180))
  THEN Add(Sub(T1T2, ThetaAdeg), N(360))
  ELSE IF Lt(T1T2, N(-90)) /\ Gt(T1T3, N(90)) /\ Gt(Sub(T1T2, ThetaAdeg), N(-180))
  THEN Sub(T1T2, ThetaAdeg)
  ELSE NaN

\* if (DIR[i] < -180) DIR[i] = DIR[i] + 10
RaisedDIR(DIR) == IF Lt(DIR, N(-180)) THEN Add(DIR, N(10)) ELSE DIR
\* if (DIR[i] > 180) DIR[i] = DIR[i] - 10
LoweredDIR(DIR) == IF Gt(DIR, N(180)) THEN Sub(DIR, N(10)) ELSE DIR

direction(bearingT1T2, bearingT1T3, ThetaAdeg) ==
  [j \in 1..Len(bearingT1T2) |->
     LoweredDIR(RaisedDIR(Turned(bearingT1T2[j], bearingT1T3[j], ThetaAdeg)))]

\* ------------------------------------------------------------------------
\* Calls of these four functions
\* ------------------------------------------------------------------------
\* bound of the bearings and angles: multiples of 45 degrees up to this many
MaxTurns == 4

Bearings == {N(45 * t) : t \in (-MaxTurns)..MaxTurns}
Angles == {N(45 * t) : t \in -2..2} \cup {N(10), N(-10)}
CrownHeights == {N(-1), Zero, N(3), N(50), N(60), NaN}
Densities == {Zero, N(1000)}
Heights == {Zero, N(5), N(20)}
Moistures == {Zero, N(84), N(90)}
Buildups == {N(-10), Zero, N(60)}
Loads == {N(-1), Zero, F(35, -2)}
BackFuels == {"C2", "M1", "O1A"}

\* one observation of the arguments of backRateOfSpread
BackOf(fuel, ffmc, wsv, bui) ==
  [FUELTYPE |-> <<fuel>>, FFMC |-> <<ffmc>>, BUI |-> <<bui>>, WSV |-> <<wsv>>,
   FMC |-> <<N(97)>>, SFC |-> <<N(1)>>, PC |-> <<N(50)>>, PDF |-> <<N(50)>>,
   CC |-> <<N(50)>>, CBH |-> <<N(2)>>]

InitCalls ==
  /\ pc = "call"
  /\ \/ \E fuel \in FuelTypes \cup {OtherFuel}, CBH \in CrownHeights,
           SD \in Densities, SH \in Heights :
          args = [fn |-> "crownBaseHeight", FUELTYPE |-> fuel, CBH |-> CBH,
                  SD |-> SD, SH |-> SH]
     \/ \E fuel \in FuelTypes \cup {OtherFuel}, FFMC \in Moistures, BUI \in Buildups,
           GFL \in Loads :
        \E PC \in PCValues(fuel) :
          args = [fn |-> "surfaceFuelConsumption", FUELTYPE |-> <<fuel>>,
                  FFMC |-> <<FFMC>>, BUI |-> <<BUI>>, PC |-> <<PC>>, GFL |-> <<GFL>>]
     \/ \E fuel \in BackFuels, ffmc \in {N(85), N(95)}, wsv \in {Zero, N(20)},
           more \in BOOLEAN :
          args = [fn |-> "backRateOfSpread",
                  o |-> IF more
                        THEN Batch(BackOf(fuel, ffmc, wsv, N(60)),
                                   BackOf("C2", N(90), N(10), N(60)))
                        ELSE BackOf(fuel, ffmc, wsv, N(60))]
     \/ \E T1T2 \in Bearings, T1T3 \in Bearings, ThetaAdeg \in Angles :
          args = [fn |-> "direction", bearingT1T2 |-> <<T1T2>>,
                  bearingT1T3 |-> <<T1T3>>, ThetaAdeg |-> ThetaAdeg]
  /\ result = <<>>
  /\ NoSeason
  /\ NoSpread
  /\ NoBatch

CallCrownBaseHeight ==
  /\ pc = "call"
  /\ args.fn = "crownBaseHeight"
  /\ result' = crownBaseHeight(args.FUELTYPE, args.CBH, args.SD, args.SH)
  /\ pc' = "returned"
  /\ UNCHANGED <<args, seasonVars, spreadVars, batchVars>>

CallSurfaceFuelConsumption ==
  /\ pc = "call"
  /\ args.fn = "surfaceFuelConsumption"
  /\ result' = surfaceFuelConsumption(args.FUELTYPE, args.FFMC, args.BUI, args.PC,
                                      args.GFL)
  /\ pc' = "returned"
  /\ UNCHANGED <<args, seasonVars, spreadVars, batchVars>>

CallBackRateOfSpread ==
  /\ pc = "call"
  /\ args.fn = "backRateOfSpread"
  /\ result' = backRateOfSpread(args.o)
  /\ pc' = "returned"
  /\ UNCHANGED <<args, seasonVars, spreadVars, batchVars>>

CallDirection ==
  /\ pc = "call"
  /\ args.fn = "direction"
  /\ result' = direction(args.bearingT1T2, args.bearingT1T3, args.ThetaAdeg)
  /\ pc' = "returned"
  /\ UNCHANGED <<args, seasonVars, spreadVars, batchVars>>

NextCalls ==
  \/ CallCrownBaseHeight
  \/ CallSurfaceFuelConsumption
  \/ CallBackRateOfSpread
  \/ CallDirection

SpecCalls == InitCalls /\ [][NextCalls]_vars

ReturnedFrom(fn) == pc = "returned" /\ args.fn = fn

\* ------------------------------------------------------------------------
\* C26
\* ------------------------------------------------------------------------
\* C26: for every fuel type, CBH, SD and SH, crownBaseHeight returns a value
\* strictly greater than 0, at least 1e-7, so that the critical surface
\* intensity and the RSO computed from it are strictly positive.
C26_AlwaysPositive ==
  ReturnedFrom("crownBaseHeight")
    => /\ Ge(result, F(1, -7))
       /\ Gt(criticalSurfaceIntensity(N(97), result), Zero)
       /\ Gt(surfaceFireRateOfSpread(criticalSurfaceIntensity(N(97), result), N(1)),
             Zero)

\* ------------------------------------------------------------------------
\* C27
\* ------------------------------------------------------------------------
\* C27: for every fuel type string and every FFMC, BUI, PC and GFL that is not
\* NaN, surfaceFuelConsumption returns values of at least 1e-6, so that the RSO
\* computed from them is finite.
C27_AlwaysPositive ==
  ReturnedFrom("surfaceFuelConsumption")
    => \A j \in 1..Len(result) :
         /\ Ge(result[j], F(1, -6))
         /\ IsFin(surfaceFireRateOfSpread(N(1000), result[j]))

\* ------------------------------------------------------------------------
\* C29
\* ------------------------------------------------------------------------
\* the parameters of rateOfSpread for observation j of the arguments of
\* backRateOfSpread alone, at the back-fire ISI of its own FFMC and WSV
BackAlone(o, j) ==
  [FUELTYPE |-> <<o.FUELTYPE[j]>>, ISI |-> <<BISI(o.FFMC[j], o.WSV[j])>>,
   BUI |-> <<o.BUI[j]>>, FMC |-> <<o.FMC[j]>>, SFC |-> <<o.SFC[j]>>,
   PC |-> <<o.PC[j]>>, PDF |-> <<o.PDF[j]>>, CC |-> <<o.CC[j]>>, CBH |-> <<o.CBH[j]>>]

\* C29: backRateOfSpread on N observations returns N rates, the j-th the rate
\* of spread of observation j at the back-fire ISI of FFMC[j] and WSV[j].
C29_EachObservation ==
  ReturnedFrom("backRateOfSpread")
    => /\ Len(result) = Len(args.o.FFMC)
       /\ \A j \in 1..Len(result) :
            result[j] = rateOfSpread(BackAlone(args.o, j))[1]

\* ------------------------------------------------------------------------
\* C30
\* ------------------------------------------------------------------------
\* C30: for bearings in [-180, 180] and ThetaAdeg in [-90, 90], every element
\* direction returns is a number, not NaN, in [-180, 180].
C30_DefinedAndInRange ==
  ReturnedFrom("direction")
    => \A j \in 1..Len(result) :
         /\ ~IsNaN(result[j])
         /\ Ge(result[j], N(-180))
         /\ Le(result[j], N(180))

====
